---- MODULE Spec2Model ----
(***************************************************************************)
(* Elder-friendly form pipeline: the two filling-session engines.          *)
(*                                                                         *)
(*  - app.py: the Redis-backed engine (/session/start, /answer, /confirm). *)
(*  - api/app/main.py: the Mongo-backed engine (/sessions,                 *)
(*    /sessions/{id}/next-question) with compound fields.                  *)
(*                                                                         *)
(* Strings are sequences of one-character strings so that strip(), lower()  *)
(* and the validators are computed rather than assumed.  Python dicts are  *)
(* functions whose DOMAIN is the key set.                                  *)
(***************************************************************************)
EXTENDS Integers, Sequences, FiniteSets, TLC

\* ------------------------------------------------------------------------
\* Bounds of the model
\* ------------------------------------------------------------------------
MaxFields == 2

MaxApiFields == 2

\* ------------------------------------------------------------------------
\* Python str helpers
\* ------------------------------------------------------------------------
Whitespace == {" "}

Digits == {"0", "1", "2", "7"}

LowerOf == [c \in {"A", "B", "S", "K", "I", "P", "D"} |->
              CASE c = "A" -> "a" [] c = "B" -> "b" [] c = "S" -> "s"
                [] c = "K" -> "k" [] c = "I" -> "i" [] c = "P" -> "p"
                [] c = "D" -> "d"]

UpperOf == [c \in {"a", "b", "s", "k", "i", "p"} |->
              CASE c = "a" -> "A" [] c = "b" -> "B" [] c = "s" -> "S"
                [] c = "k" -> "K" [] c = "i" -> "I" [] c = "p" -> "P"]

IsLetter(c) == c \in DOMAIN LowerOf \cup DOMAIN UpperOf

\* str.lower()
Lower(s) == [i \in 1..Len(s) |-> IF s[i] \in DOMAIN LowerOf THEN LowerOf[s[i]] ELSE s[i]]

\* str.upper()
Upper(s) == [i \in 1..Len(s) |-> IF s[i] \in DOMAIN UpperOf THEN UpperOf[s[i]] ELSE s[i]]

\* str.title(): a letter is upper-cased when it starts a word, lower-cased otherwise
Title(s) == [i \in 1..Len(s) |->
               IF i = 1 \/ ~IsLetter(s[i - 1])
               THEN (IF s[i] \in DOMAIN UpperOf THEN UpperOf[s[i]] ELSE s[i])
               ELSE (IF s[i] \in DOMAIN LowerOf THEN LowerOf[s[i]] ELSE s[i])]

\* the k-th smallest element of a set of positions
Nth(S, k) == CHOOSE i \in S : Cardinality({j \in S : j <= i}) = k

\* str.strip(): what lies between the first and the last non-blank character
Strip(s) ==
    LET keep == {i \in 1..Len(s) : s[i] \notin Whitespace}
    IN IF keep = {} THEN <<>>
       ELSE SubSeq(s, Nth(keep, 1), Nth(keep, Cardinality(keep)))

\* re.sub(r"\s+", " ", value): every run of whitespace becomes one space
CollapseWs(s) ==
    LET keep == {i \in 1..Len(s) : s[i] \notin Whitespace \/ i = 1 \/ s[i - 1] \notin Whitespace}
    IN [k \in 1..Cardinality(keep) |->
          IF s[Nth(keep, k)] \in Whitespace THEN " " ELSE s[Nth(keep, k)]]

DigitVal == [c \in Digits |-> CASE c = "0" -> 0 [] c = "1" -> 1 [] c = "2" -> 2 [] c = "7" -> 7]

AllDigits(s) == s # <<>> /\ \A i \in 1..Len(s) : s[i] \in Digits

\* the number the first n digits of s denote
RECURSIVE DecPrefix(_, _)
DecPrefix(s, n) == IF n = 0 THEN 0 ELSE 10 * DecPrefix(s, n - 1) + DigitVal[s[n]]

DecValue(s) == DecPrefix(s, Len(s))

\* Python dict helpers
EmptyDict == [k \in {} |-> <<>>]

DictSet(d, k, v) == [x \in (DOMAIN d) \cup {k} |-> IF x = k THEN v ELSE d[x]]

\* ------------------------------------------------------------------------
\* app.py: _validate_field
\* ------------------------------------------------------------------------
\* One normalizer of the loop at the top of _validate_field
ApplyNormalizer(n, value) ==
    CASE n = "strip_spaces" -> Strip(value)
      [] n = "collapse_whitespace" -> Strip(CollapseWs(value))
      [] n = "upper" -> Upper(value)
      [] n = "lower" -> Lower(value)
      [] n = "title_case" -> Title(value)
      [] OTHER -> value

RECURSIVE ApplyNormalizers(_, _)
ApplyNormalizers(ns, value) ==
    IF ns = <<>> THEN value
    ELSE ApplyNormalizers(Tail(ns), ApplyNormalizer(Head(ns), value))

\* re.compile(pattern).match(value) for the patterns the forms of the model use
PatDigits == "^[0-9]+$"

PatUpperStart == "^[A-Z]"

RegexMatch(pattern, value) ==
    CASE pattern = PatDigits -> AllDigits(value)
      [] pattern = PatUpperStart -> value # <<>> /\ value[1] \in DOMAIN LowerOf
      [] OTHER -> TRUE

\* float(value): surrounding whitespace is ignored, anything but digits raises
FloatOk(value) == AllDigits(Strip(value))

FloatVal(value) == DecValue(Strip(value))

\* datetime.strptime(value, "%d/%m/%Y").date()
SplitSlash(s) ==
    LET pos == {i \in 1..Len(s) : s[i] = "/"}
        n == Cardinality(pos)
        cut(k) == IF k = 0 THEN 0 ELSE IF k = n + 1 THEN Len(s) + 1 ELSE Nth(pos, k)
    IN [k \in 1..(n + 1) |-> SubSeq(s, cut(k - 1) + 1, cut(k) - 1)]

IsLeap(y) == (y % 4 = 0 /\ y % 100 # 0) \/ y % 400 = 0

DaysInMonth(y, m) ==
    IF m = 2 THEN (IF IsLeap(y) THEN 29 ELSE 28)
    ELSE IF m \in {4, 6, 9, 11} THEN 30 ELSE 31

\* strptime accepts the three parts p of a date: 1-2 digits, 1-2 digits, 4 digits
DatePartsOk(p) ==
    /\ Len(p) = 3
    /\ AllDigits(p[1]) /\ Len(p[1]) \in 1..2
    /\ AllDigits(p[2]) /\ Len(p[2]) \in 1..2
    /\ AllDigits(p[3]) /\ Len(p[3]) = 4
    /\ DecValue(p[3]) >= 1
    /\ DecValue(p[2]) \in 1..12
    /\ DecValue(p[1]) \in 1..DaysInMonth(DecValue(p[3]), DecValue(p[2]))

DateOk(value) == \E p \in {SplitSlash(value)} : DatePartsOk(p)

\* a date as the ordinal yyyymmdd, which orders dates as datetime.date does
DateVal(value) ==
    CHOOSE d \in {DecValue(p[3]) * 10000 + DecValue(p[2]) * 100 + DecValue(p[1]) :
                     p \in {SplitSlash(value)}} : TRUE

\* One validator of the loop: TRUE when it lets the value through
ValidatorOk(v, value) ==
    CASE v.type = "regex" -> RegexMatch(v.pattern, value)
      [] v.type = "length" -> v.min <= Len(value) /\ Len(value) <= v.max
      [] v.type = "numeric_range" ->
            FloatOk(value) /\ v.min <= FloatVal(value) /\ FloatVal(value) <= v.max
      [] v.type = "date_range" ->
            DateOk(value) /\ v.min <= DateVal(value) /\ DateVal(value) <= v.max
      [] OTHER -> TRUE

\* the validator loop and the field pattern, on the normalized value
Verdict(field, value) ==
    LET bad == {i \in 1..Len(field.validators) : ~ValidatorOk(field.validators[i], value)}
    IN IF bad # {}
       THEN [ok |-> FALSE, msg |-> field.validators[Nth(bad, 1)].type, value |-> value]
       ELSE IF field.pattern # "" /\ ~RegexMatch(field.pattern, value)
       THEN [ok |-> FALSE, msg |-> "pattern", value |-> value]
       ELSE [ok |-> TRUE, msg |-> "", value |-> value]

\* _validate_field(field, value) = (ok, msg, value): normalizers in declared
\* order, then the validators, then the field pattern; msg names what rejected
ValidateField(field, value0) ==
    CHOOSE r \in {Verdict(field, value) :
                     value \in {ApplyNormalizers(field.normalizers, value0)}} : TRUE

\* ------------------------------------------------------------------------
\* app.py: the forms (FORMS / FORM_INDEX) and the questions of a form
\* ------------------------------------------------------------------------
\* kinds of field a form is made of; the name is given by the position.
\* has_required: the field has a "required" key; required: the truth value
\* of field.get("required")
FieldKinds ==
    { [has_required |-> TRUE, required |-> TRUE, normalizers |-> <<"strip_spaces", "title_case">>,
       validators |-> <<[type |-> "length", pattern |-> "", min |-> 2, max |-> 3]>>,
       pattern |-> ""],
      [has_required |-> TRUE, required |-> TRUE, normalizers |-> <<"collapse_whitespace">>,
       validators |-> <<[type |-> "numeric_range", pattern |-> "", min |-> 1, max |-> 20]>>,
       pattern |-> PatDigits],
      [has_required |-> TRUE, required |-> TRUE, normalizers |-> <<"strip_spaces">>,
       validators |-> <<[type |-> "date_range", pattern |-> "", min |-> 20000101, max |-> 20201231]>>,
       pattern |-> ""],
      [has_required |-> TRUE, required |-> FALSE, normalizers |-> <<"lower">>,
       validators |-> <<>>,
       pattern |-> ""],
      [has_required |-> TRUE, required |-> TRUE, normalizers |-> <<"upper">>,
       validators |-> <<[type |-> "regex", pattern |-> PatUpperStart, min |-> 0, max |-> 0]>>,
       pattern |-> ""],
      \* a field without a "required" key
      [has_required |-> FALSE, required |-> FALSE, normalizers |-> <<>>,
       validators |-> <<>>,
       pattern |-> ""] }

FieldNames == <<"f1", "f2", "f3", "f4">>

\* FORM_INDEX: every form of 1..MaxFields fields over the field kinds
FORM_INDEX ==
    UNION { { [i \in 1..n |-> [name |-> FieldNames[i],
                              has_required |-> ks[i].has_required,
                              required |-> ks[i].required,
                              normalizers |-> ks[i].normalizers,
                              validators |-> ks[i].validators,
                              pattern |-> ks[i].pattern]] :
              ks \in [1..n -> FieldKinds] } : n \in 1..MaxFields }

\* generate_fallback_questions(form): one question per field, named after it
generate_fallback_questions(fields) == [i \in 1..Len(fields) |-> fields[i].name]

\* ------------------------------------------------------------------------
\* State
\* ------------------------------------------------------------------------
VARIABLES
    openai_api_key,   \* app.py settings.openai_api_key is set: get_client() returns a client
    redis,            \* app.py: the Redis store of SessionManager, session id -> session
    pending_field,    \* history: name of the field /answer was grading when it set st.pending
    app_resp,         \* app.py: the response of the last request
    qtask,            \* app.py: the background task generate_questions_async of the session
    OPENAI_API_KEY,   \* api/app/main.py: the environment variable is set: _openai_client() returns a client
    db_sessions,      \* api/app/main.py: the sessions collection, session id -> document
    api_resp,         \* api/app/main.py: the NextQuestionResponse of the last next-question call
    web,              \* crawler: url -> hash of the bytes the site serves now
    crawled_forms,    \* crawler: the crawled_forms collection, a set of documents
    bucket,           \* the object store: the keys of the blobs in FORMS_BUCKET
    now,              \* the clock read by time.time() and datetime.utcnow()
    crawler,          \* crawler: per executor of run_crawl, its position and locals
    queue,            \* worker: the SQS messages not yet deleted, each the key of its event
    forms,            \* worker: the forms collection, a set of documents
    unnotified,       \* the objects the worker put whose object-created event is still to come
    worker,           \* worker: whether the process of main() was started, runs, or has exited
    processed,        \* history: per event key, how often it was processed, and the id and field ids of the first time
    detect,           \* ocr: the bbox detection step of one ocr_extract_fields call
    fill_req,         \* overlay: the arguments of one overlay_pdf call
    fill_out,         \* overlay: what the call returned, or NoOutput before it
    ttl_left,         \* SessionManager: per Redis key, the seconds until it expires
    sm,               \* SessionManager: the call in progress and the last result
    idle_for          \* history: per session created and not deleted, the seconds since its last read or write

appVars == <<openai_api_key, redis, pending_field, app_resp, qtask>>

apiVars == <<OPENAI_API_KEY, db_sessions, api_resp>>

crawlerVars == <<web, crawled_forms, bucket, now, crawler>>

workerVars == <<queue, forms, unnotified, worker, processed>>

ocrVars == <<detect>>

fillVars == <<fill_req, fill_out>>

ttlVars == <<ttl_left, sm, idle_for>>

pipelineVars == <<crawlerVars, workerVars, ocrVars, fillVars, ttlVars>>

vars == <<openai_api_key, redis, pending_field, app_resp, qtask, OPENAI_API_KEY, db_sessions, api_resp,
          web, crawled_forms, bucket, now, crawler, queue, forms, unnotified, worker, processed,
          detect,
          fill_req, fill_out, ttl_left, sm, idle_for>>

\* the session id the requests of the model carry
sid == "s1"

\* SessionManager.get(sid) found the key
HasSession == sid \in DOMAIN redis

\* SessionManager.get(sid)
st == redis[sid]

\* SessionManager.create / update: setex of the serialized session
Stored(data) == DictSet(redis, sid, data)

\* the texts a user sends to /answer
AnswerInputs ==
    { <<>>, <<" ">>, <<"a", "b">>, <<"7">>, <<"2", "7">>,
      <<"1", "/", "2", "/", "2", "0", "0", "7">> }

\* what the grader call does when a client exists: call_openai_with_retry or
\* json.loads raises, or the reply has is_suspicious true / false
GraderOutcomes == {"raise", "suspicious", "clean"}

AppResp(code, kind, field, msg) == [code |-> code, kind |-> kind, field |-> field, msg |-> msg]

\* ------------------------------------------------------------------------
\* app.py: /session/start
\* ------------------------------------------------------------------------
\* no background task of the session is waiting or running
NoTask == [pc |-> "none"]

\* found: pick_form resolved the query to a form id of FORM_INDEX;
\* cached: fid in QUESTIONS_CACHE, filled by the task of an earlier session
\* of this process; otherwise background_tasks.add_task schedules the task.
\* A question is modelled by the name of its field, which cached, generated
\* and fallback questions share.
start_session(fid, found, cached) ==
    /\ ~HasSession
    /\ IF ~found
       THEN /\ app_resp' = AppResp(400, "error", "", "")
            /\ UNCHANGED <<redis, pending_field, qtask>>
       ELSE /\ qtask' = IF cached THEN NoTask ELSE [pc |-> "scheduled"]
            /\ redis' = Stored([form_id |-> fid,
                      answers |-> EmptyDict,
                      field_idx |-> 0,
                      questions |-> generate_fallback_questions(fid),
                      stage |-> "ask",
                      pending |-> EmptyDict])
            /\ pending_field' = ""
            \* {"session_id": sid, "form_id": fid, "ask": ..., "field": first["name"], ...}
            /\ app_resp' = AppResp(200, "start", generate_fallback_questions(fid)[1], "")
    /\ UNCHANGED <<openai_api_key, apiVars, pipelineVars>>

\* ------------------------------------------------------------------------
\* app.py: generate_questions_async, the background task of /session/start
\* ------------------------------------------------------------------------
\* the questions of the model's reply that passed the validation: as many
\* as the fields, each named after its field
AiQuestions(fields) == [i \in 1..Len(fields) |-> fields[i].name]

\* the task up to its read: no client, a call that raises or a reply that
\* fails the validation end it; otherwise the questions are cached and
\* st = get_session_manager().get(session_id)
generate_questions_async(llm_ok) ==
    /\ qtask.pc = "scheduled"
    /\ qtask' = IF openai_api_key /\ llm_ok /\ HasSession
              THEN [pc |-> "read", st |-> st]
              ELSE NoTask
    /\ UNCHANGED <<openai_api_key, redis, pending_field, app_resp>>
    /\ UNCHANGED <<apiVars, pipelineVars>>

\* the task writes the session it read back with the questions replaced
WriteBack(s, questions) == [s EXCEPT !.questions = questions]

\* st["questions"] = questions; get_session_manager().update(session_id, st):
\* update raises 404 when the key is gone, which the task's except logs
generate_questions_update ==
    /\ qtask.pc = "read"
    /\ redis' = IF HasSession
                THEN Stored(WriteBack(qtask.st, AiQuestions(qtask.st.form_id)))
                ELSE redis
    /\ qtask' = NoTask
    /\ UNCHANGED <<openai_api_key, pending_field, app_resp>>
    /\ UNCHANGED <<apiVars, pipelineVars>>

\* the session's Redis key reaches its TTL
session_expire ==
    /\ HasSession
    /\ redis' = EmptyDict
    /\ pending_field' = ""
    /\ app_resp' = AppResp(0, "none", "", "")
    /\ UNCHANGED <<openai_api_key, qtask, apiVars, pipelineVars>>

\* ------------------------------------------------------------------------
\* app.py: /answer
\* ------------------------------------------------------------------------
\* the skip branch without its "not required" test
SkipAllowed_anyField(field, answer_text) == answer_text = <<>>

\* field.get("required", True)
RequiredOrTrue(field) == IF field.has_required THEN field.required ELSE TRUE

\* "Allow skipping optional fields": the guard of the skip branch
SkipAllowed(field, answer_text) == answer_text = <<>> /\ ~RequiredOrTrue(field)

\* the tail with the increment applied a second time (a branch that falls
\* through into the next one instead of returning)
Advance_twice(st2) ==
    LET st3 == [st2 EXCEPT !.field_idx = @ + 1]
    IN IF st3.field_idx >= Len(st3.form_id)
       THEN [s |-> [st3 EXCEPT !.stage = "review"],
             r |-> [code |-> 200, kind |-> "done", field |-> "", msg |-> ""]]
       ELSE [s |-> st3,
             r |-> [code |-> 200, kind |-> "ask", field |-> st3.questions[st3.field_idx + 1], msg |-> ""]]

\* the tail shared by the skip branch, the commit branch and /confirm yes:
\* st2 already has field_idx incremented; past the last field the stage
\* becomes "review", otherwise the next question is asked
Advance(st2) ==
    IF st2.field_idx >= Len(st2.form_id)
    THEN [s |-> [st2 EXCEPT !.stage = "review"],
          r |-> AppResp(200, "done", "", "")]
    ELSE [s |-> st2,
          r |-> AppResp(200, "ask", st2.questions[st2.field_idx + 1], "")]

\* the rejection raised as an HTTP error instead of being returned
ValidationFailed_asError(msg) == AppResp(422, "error", "", msg)

\* return {"ok": False, "message": msg}
ValidationFailed(msg) == AppResp(200, "rejected", "", msg)

answer_field(answer, grader) ==
    /\ UNCHANGED <<openai_api_key, qtask, apiVars, pipelineVars>>
    /\ IF ~HasSession
       THEN /\ app_resp' = AppResp(404, "error", "", "")
            /\ UNCHANGED <<redis, pending_field>>
       ELSE
       LET fields == st.form_id
           idx == st.field_idx
       IN IF idx >= Len(fields)
          THEN \* {"done": True, "message": "Đã đủ thông tin."}
               /\ app_resp' = AppResp(200, "done", "", "already")
               /\ UNCHANGED <<redis, pending_field>>
          ELSE
          LET field == fields[idx + 1]
              answer_text == Strip(answer)
              v == ValidateField(field, answer_text)
          IN IF SkipAllowed(field, answer_text)
             THEN LET a == Advance([st EXCEPT !.field_idx = idx + 1])
                  IN /\ redis' = Stored(a.s)
                     /\ app_resp' = a.r
                     /\ UNCHANGED pending_field
             ELSE IF ~v.ok
             THEN /\ app_resp' = ValidationFailed(v.msg)
                  /\ UNCHANGED <<redis, pending_field>>
             ELSE IF openai_api_key /\ grader = "suspicious"
             THEN /\ redis' = Stored([st EXCEPT !.pending = DictSet(EmptyDict, "value", v.value),
                                               !.stage = "confirm"])
                  /\ pending_field' = field.name
                  /\ app_resp' = AppResp(200, "confirm", "", "")
             ELSE LET a == Advance([st EXCEPT !.answers = DictSet(st.answers, field.name, v.value),
                                              !.field_idx = idx + 1])
                  IN /\ redis' = Stored(a.s)
                     /\ app_resp' = a.r
                     /\ UNCHANGED pending_field

\* ------------------------------------------------------------------------
\* app.py: /confirm
\* ------------------------------------------------------------------------
\* the "no" branch that clears pending and leaves the stage as it is
DiscardPending_keepsStage(s) == [s EXCEPT !.pending = EmptyDict]

\* the "no" branch of /confirm: the held value is dropped, back to "ask"
DiscardPending(s) == [s EXCEPT !.pending = EmptyDict, !.stage = "ask"]

\* the handler without its stage test
NothingToConfirm_never(s) == FALSE

\* if st.get("stage") != "confirm": raise HTTPException(400, ...)
NothingToConfirm(s) == s.stage # "confirm"

confirm(yes) ==
    /\ UNCHANGED <<openai_api_key, qtask, apiVars, pipelineVars>>
    /\ IF ~HasSession
       THEN /\ app_resp' = AppResp(404, "error", "", "")
            /\ UNCHANGED <<redis, pending_field>>
       ELSE IF NothingToConfirm(st)
       THEN /\ app_resp' = AppResp(400, "error", "", "")
            /\ UNCHANGED <<redis, pending_field>>
       ELSE
       LET fields == st.form_id
           idx == st.field_idx
       IN IF idx >= Len(fields) \/ (yes /\ "value" \notin DOMAIN st.pending)
          THEN \* form["fields"][idx] or st["pending"]["value"] raises: HTTP 500
               /\ app_resp' = AppResp(500, "error", "", "")
               /\ UNCHANGED <<redis, pending_field>>
          ELSE
          LET field == fields[idx + 1]
          IN IF yes
             THEN LET a == Advance([st EXCEPT !.answers = DictSet(st.answers, field.name, st.pending["value"]),
                                              !.pending = EmptyDict,
                                              !.stage = "ask",
                                              !.field_idx = idx + 1])
                  IN /\ redis' = Stored(a.s)
                     /\ app_resp' = a.r
                     /\ pending_field' = ""
             ELSE /\ redis' = Stored(DiscardPending(st))
                  /\ pending_field' = ""
                  /\ app_resp' = AppResp(200, "ask", st.questions[idx + 1], "")

\* ------------------------------------------------------------------------
\* app.py: /question/next
\* ------------------------------------------------------------------------
question_next ==
    /\ UNCHANGED <<openai_api_key, qtask, apiVars, pipelineVars>>
    /\ UNCHANGED <<redis, pending_field>>
    /\ IF ~HasSession
       THEN app_resp' = AppResp(404, "error", "", "")
       ELSE IF st.field_idx >= Len(st.form_id)
       THEN \* {"done": True, "message": "Đã thu thập đủ thông tin. ..."}
            app_resp' = AppResp(200, "done", "", "collected")
       ELSE app_resp' = AppResp(200, "ask", st.questions[st.field_idx + 1], "")

\* ------------------------------------------------------------------------
\* app.py: /preview
\* ------------------------------------------------------------------------
\* ", ".join(labels)
RECURSIVE JoinLabels(_)
JoinLabels(labels) ==
    IF labels = <<>> THEN ""
    ELSE IF Len(labels) = 1 THEN labels[1]
    ELSE labels[1] \o ", " \o JoinLabels(Tail(labels))

\* [f["label"] for f in fields if keep(f)]: the label of a field is its name
RECURSIVE LabelsWhere(_, _)
LabelsWhere(fields, keep) ==
    IF fields = <<>> THEN <<>>
    ELSE (IF Head(fields).name \in keep THEN <<Head(fields).name>> ELSE <<>>)
         \o LabelsWhere(Tail(fields), keep)

\* missing = [f["label"] for f in form["fields"]
\*            if f.get("required") and f["name"] not in answers]
MissingRequired(fields, answers) ==
    LabelsWhere(fields, {fields[i].name : i \in {j \in 1..Len(fields) :
                    fields[j].required /\ fields[j].name \notin DOMAIN answers}})

\* the fallback preview: [{"label": ..., "value": answers.get(name, "")}]
FallbackPreview(fields, answers) ==
    [i \in 1..Len(fields) |->
        IF fields[i].name \in DOMAIN answers THEN answers[fields[i].name] ELSE <<>>]

\* st["preview"] = ...; st["prose"] = ...: by names who wrote them; the
\* rows of the model's reply are not interpreted
WithPreview(s, by, rows) ==
    [form_id |-> s.form_id, answers |-> s.answers, field_idx |-> s.field_idx,
     questions |-> s.questions, stage |-> s.stage, pending |-> s.pending,
     preview |-> [by |-> by, rows |-> rows]]

\* llm_ok: a client exists and its reply parses
preview(llm_ok) ==
    /\ UNCHANGED <<openai_api_key, qtask, apiVars, pipelineVars>>
    /\ UNCHANGED pending_field
    /\ IF ~HasSession
       THEN /\ app_resp' = AppResp(404, "error", "", "")
            /\ UNCHANGED redis
       ELSE LET missing == MissingRequired(st.form_id, st.answers)
            IN IF missing # <<>>
               THEN \* {"ok": False, "message": "Còn thiếu: " + ", ".join(missing)}
                    /\ app_resp' = AppResp(200, "missing", "", JoinLabels(missing))
                    /\ UNCHANGED redis
               ELSE /\ redis' = Stored(IF openai_api_key /\ llm_ok
                                       THEN WithPreview(st, "openai", <<>>)
                                       ELSE WithPreview(st, "fallback",
                                                FallbackPreview(st.form_id, st.answers)))
                    /\ app_resp' = AppResp(200, "preview", "", "")


\* ------------------------------------------------------------------------
\* api/app/main.py: JSON values, forms, inputs and LLM replies
\* ------------------------------------------------------------------------
\* a JSON value: a string, null, or an object (dict) of JSON values
JStr(s) == [t |-> "str", s |-> s, d |-> EmptyDict]

JNull == [t |-> "null", s |-> <<>>, d |-> EmptyDict]

JDict(d) == [t |-> "dict", s |-> <<>>, d |-> d]

Range(q) == {q[i] : i \in 1..Len(q)}

ApiFieldKinds ==
    { [type |-> "text", required |-> TRUE, subfields |-> <<>>],
      [type |-> "text", required |-> FALSE, subfields |-> <<>>],
      [type |-> "compound", required |-> TRUE,
       subfields |-> <<[id |-> "so", prompt |-> "so"],
                       [id |-> "cap_ngay", prompt |-> "ngay cap"]>>] }

ApiFieldIds == <<"q1", "q2", "q3", "q4">>

\* the forms collection: every form of 1..MaxApiFields fields over the kinds
ApiForms ==
    UNION { { [i \in 1..n |-> [id |-> ApiFieldIds[i],
                              type |-> ks[i].type,
                              required |-> ks[i].required,
                              subfields |-> ks[i].subfields]] :
              ks \in [1..n -> ApiFieldKinds] } : n \in 1..MaxApiFields }

\* the values a client sends as lastAnswer.value
ApiInputs == { <<>>, <<"S", "k", "i", "p", " ">>, <<"a", "b">> }

\* an id that no form and no field declares
UnknownId == "zz"

FormIds(form) == {form[i].id : i \in 1..Len(form)}

SubIds(field) == [i \in 1..Len(field.subfields) |-> field.subfields[i].id]

\* no LLM call is made when _openai_client() returns None
NoCall == [kind |-> "none"]

\* what chat.completions.create and json.loads do in _validate_answer_with_openai
ValidateReplies ==
    IF ~OPENAI_API_KEY THEN {NoCall}
    ELSE {[kind |-> "raise"]} \cup
         {[kind |-> "reply", isValid |-> v, needsConfirmation |-> c] : v \in BOOLEAN, c \in BOOLEAN}

ParseReply(parsedIsDict, parsed, missingIsList, missing, hasNc, nc) ==
    [kind |-> "reply", parsedIsDict |-> parsedIsDict, parsed |-> parsed,
     missingIsList |-> missingIsList, missing |-> missing, hasNc |-> hasNc, nc |-> nc]

\* ... in _parse_compound_answer: the call raises, or the model returns a JSON
\* object: complete, with a null, with "parsed" not an object, with ids
\* reported missing (declared or not), with "missing" not a list, unclear
ParseReplies(field, answer) ==
    IF ~OPENAI_API_KEY \/ field.subfields = <<>> THEN {NoCall}
    ELSE
    LET ids == SubIds(field)
        full == [k \in Range(ids) |-> JStr(answer)]
        withNull == [k \in Range(ids) |-> IF k = ids[1] THEN JStr(answer) ELSE JNull]
    IN {[kind |-> "raise"]} \cup
       { ParseReply(TRUE, full, TRUE, <<>>, TRUE, FALSE),
         ParseReply(TRUE, full, TRUE, <<>>, FALSE, FALSE),
         ParseReply(TRUE, withNull, TRUE, <<>>, TRUE, FALSE),
         ParseReply(FALSE, EmptyDict, TRUE, <<>>, TRUE, FALSE),
         ParseReply(TRUE, full, TRUE, <<>>, TRUE, TRUE),
         ParseReply(TRUE, withNull, TRUE, <<ids[Len(ids)]>>, TRUE, FALSE),
         ParseReply(TRUE, withNull, TRUE, <<UnknownId>>, TRUE, FALSE),
         ParseReply(TRUE, withNull, FALSE, <<>>, TRUE, FALSE) }

\* ... in generate_next_question: the call raises, or the model says done, or
\* it names a question id (str(None) when it gives none)
GenReplies(form) ==
    IF ~OPENAI_API_KEY THEN {NoCall}
    ELSE {[kind |-> "raise"], [kind |-> "done"]} \cup
         {[kind |-> "question", id |-> i] : i \in FormIds(form) \cup {"None"}}

NoValidation == [present |-> FALSE, isValid |-> TRUE, needsConfirmation |-> FALSE, names |-> <<>>]

\* ValidationResponse; names lists the subfield prompts its message names
ValidationResponse(isValid, needsConfirmation, names) ==
    [present |-> TRUE, isValid |-> isValid, needsConfirmation |-> needsConfirmation, names |-> names]

\* NextQuestionResponse; nextQuestion is the question's id, "" when there is none
NextQuestionResponse(nextQuestion, done) ==
    [code |-> 200, nextQuestion |-> nextQuestion, done |-> done, validation |-> NoValidation]

\* ------------------------------------------------------------------------
\* api/app/main.py: _parse_compound_answer, _validate_answer_with_openai,
\* generate_next_question
\* ------------------------------------------------------------------------
_parse_compound_answer(field, answer, llm) ==
    IF ~OPENAI_API_KEY \/ field.subfields = <<>>
    THEN [parsed |-> DictSet(EmptyDict, field.id, JStr(answer)),
          missing |-> <<>>, needs_clarification |-> FALSE]
    ELSE IF llm.kind = "raise"
    THEN [parsed |-> DictSet(EmptyDict, field.id, JStr(answer)),
          missing |-> SubIds(field), needs_clarification |-> TRUE]
    ELSE [parsed |-> IF llm.parsedIsDict THEN llm.parsed ELSE EmptyDict,
          missing |-> IF llm.missingIsList THEN llm.missing ELSE SubIds(field),
          needs_clarification |-> IF llm.hasNc THEN llm.nc ELSE FALSE]

_validate_answer_with_openai(answer, llm) ==
    IF ~OPENAI_API_KEY THEN ValidationResponse(TRUE, FALSE, <<>>)
    ELSE IF Strip(answer) = <<>> THEN ValidationResponse(TRUE, FALSE, <<>>)
    ELSE IF llm.kind = "raise" THEN ValidationResponse(TRUE, FALSE, <<>>)
    ELSE ValidationResponse(llm.isValid, llm.needsConfirmation, <<>>)

\* the fields that are neither answered nor skipped, in form order
Unanswered(form, answers, skipped) ==
    SelectSeq(form, LAMBDA f : f.id \notin (DOMAIN answers) \cup Range(skipped))

\* the generator with the skipped list left out of answered_or_skipped
generate_next_question_ignoreSkipped(form, answers, skipped, llm) ==
    LET unanswered == Unanswered(form, answers, <<>>)
    IN IF unanswered = <<>> THEN NextQuestionResponse("", TRUE)
       ELSE IF ~OPENAI_API_KEY THEN NextQuestionResponse(unanswered[1].id, FALSE)
       ELSE IF llm.kind = "raise" THEN NextQuestionResponse(unanswered[1].id, FALSE)
       ELSE IF llm.kind = "done" THEN NextQuestionResponse("", TRUE)
       ELSE NextQuestionResponse(llm.id, FALSE)

generate_next_question(form, answers, skipped, llm) ==
    LET unanswered == Unanswered(form, answers, skipped)
    IN IF unanswered = <<>> THEN NextQuestionResponse("", TRUE)
       ELSE IF ~OPENAI_API_KEY THEN NextQuestionResponse(unanswered[1].id, FALSE)
       ELSE IF llm.kind = "raise" THEN NextQuestionResponse(unanswered[1].id, FALSE)
       ELSE IF llm.kind = "done" THEN NextQuestionResponse("", TRUE)
       ELSE NextQuestionResponse(llm.id, FALSE)


\* ------------------------------------------------------------------------
\* api/app/main.py: POST /sessions and POST /sessions/{id}/next-question
\* ------------------------------------------------------------------------
\* the session id the requests of the model carry
msid == "m1"

ApiHasSession == msid \in DOMAIN db_sessions

session == db_sessions[msid]

SkipWords == { <<"s", "k", "i", "p">>, <<"b", "o", " ", "q", "u", "a">> }

\* is_skip: empty answer or special skip marker
is_skip(answer_value) ==
    \/ answer_value = <<>>
    \/ Strip(answer_value) = <<>>
    \/ Lower(Strip(answer_value)) \in SkipWords

\* found: db.forms.find_one found the form
api_start_session(form, found) ==
    /\ ~ApiHasSession
    /\ IF ~found
       THEN /\ api_resp' = [code |-> 404, nextQuestion |-> "", done |-> FALSE, validation |-> NoValidation]
            /\ UNCHANGED db_sessions
       ELSE /\ db_sessions' = DictSet(db_sessions, msid,
                                     [formId |-> form, answers |-> EmptyDict, skipped |-> <<>>])
            /\ UNCHANGED api_resp
    /\ UNCHANGED <<appVars, OPENAI_API_KEY, pipelineVars>>

\* the prompts of the declared subfields among the ids reported missing
RECURSIVE MissingPrompts(_, _)
MissingPrompts(field, missing) ==
    IF missing = <<>> THEN <<>>
    ELSE LET hit == SelectSeq(field.subfields, LAMBDA sf : sf.id = Head(missing))
         IN (IF hit = <<>> THEN <<>> ELSE <<hit[1].prompt>>) \o MissingPrompts(field, Tail(missing))

\* db.sessions.update_one(..., {"$set": {"answers": ...}})
SaveAnswer(fieldId, value) ==
    DictSet(db_sessions, msid, [session EXCEPT !.answers = DictSet(session.answers, fieldId, value)])

\* the reply of generate_next_question with the validation attached
WithValidation(resp, validation) == [resp EXCEPT !.validation = validation]

\* next(f for f in form["fields"] if f["id"] == fieldId)
FieldOf(form, fieldId) == form[CHOOSE i \in 1..Len(form) : form[i].id = fieldId]

\* llm: what the LLM does in the validation / compound-parse call of the turn;
\* gen: what it does in the generate_next_question call of the turn
next_question(hasAnswer, fieldId, answer_value, llm, gen) ==
    /\ UNCHANGED <<appVars, OPENAI_API_KEY, pipelineVars>>
    /\ IF ~ApiHasSession
       THEN /\ api_resp' = [code |-> 404, nextQuestion |-> "", done |-> FALSE, validation |-> NoValidation]
            /\ UNCHANGED db_sessions
       ELSE
       LET form == session.formId
           answers == session.answers
           skipped == session.skipped
       IN IF ~hasAnswer
          THEN /\ api_resp' = generate_next_question(form, answers, skipped, gen)
               /\ UNCHANGED db_sessions
          ELSE IF is_skip(answer_value)
          THEN LET skipped_list == IF fieldId \in Range(skipped) THEN skipped
                                   ELSE Append(skipped, fieldId)
               IN /\ db_sessions' = DictSet(db_sessions, msid, [session EXCEPT !.skipped = skipped_list])
                  /\ api_resp' = generate_next_question(form, answers, skipped_list, gen)
          ELSE IF fieldId \notin FormIds(form)
          THEN \* field is None: "Answer is valid, save it"
               /\ db_sessions' = SaveAnswer(fieldId, JStr(answer_value))
               /\ api_resp' = generate_next_question(
                                 form, DictSet(answers, fieldId, JStr(answer_value)), skipped, gen)
          ELSE
          LET field == FieldOf(form, fieldId)
          IN IF field.type = "compound"
             THEN LET parse_result == _parse_compound_answer(field, answer_value, llm)
                      missing_prompts == MissingPrompts(field, parse_result.missing)
                  IN IF parse_result.missing # <<>> \/ parse_result.needs_clarification
                     THEN /\ UNCHANGED db_sessions
                          /\ api_resp' = WithValidation(
                                generate_next_question(form, answers, skipped, gen),
                                ValidationResponse(FALSE, FALSE, missing_prompts))
                     ELSE /\ db_sessions' = SaveAnswer(fieldId, JDict(parse_result.parsed))
                          /\ api_resp' = generate_next_question(
                                form, DictSet(answers, fieldId, JDict(parse_result.parsed)),
                                skipped, gen)
             ELSE LET validation_result == _validate_answer_with_openai(answer_value, llm)
                  IN IF ~validation_result.isValid
                     THEN /\ UNCHANGED db_sessions
                          /\ api_resp' = WithValidation(
                                generate_next_question(form, answers, skipped, gen),
                                validation_result)
                     ELSE IF validation_result.needsConfirmation
                     THEN \* "Save the answer but ask for confirmation"
                          /\ db_sessions' = SaveAnswer(fieldId, JStr(answer_value))
                          /\ api_resp' = WithValidation(
                                generate_next_question(
                                   form, DictSet(answers, fieldId, JStr(answer_value)),
                                   skipped, gen),
                                validation_result)
                     ELSE \* "Answer is valid, save it"
                          /\ db_sessions' = SaveAnswer(fieldId, JStr(answer_value))
                          /\ api_resp' = WithValidation(
                                generate_next_question(
                                   form, DictSet(answers, fieldId, JStr(answer_value)),
                                   skipped, gen),
                                validation_result)

\* the LLM outcomes possible in the first call of a turn: none when the turn
\* makes no such call, the parse outcomes for a compound field, the
\* validation outcomes for a regular one
TurnReplies(hasAnswer, fieldId, answer_value) ==
    IF ~ApiHasSession \/ ~hasAnswer \/ is_skip(answer_value) \/ fieldId \notin FormIds(session.formId)
    THEN {NoCall}
    ELSE IF FieldOf(session.formId, fieldId).type = "compound"
    THEN ParseReplies(FieldOf(session.formId, fieldId), answer_value)
    ELSE ValidateReplies

\* ------------------------------------------------------------------------
\* crawler/app/main.py: sources, documents and executors
\* ------------------------------------------------------------------------
\* number of entries of FORM_SOURCES the model crawls
MaxSources == 1

\* the clock stops at MaxTime: no cycle starts after it
MaxTime == 1

\* FORM_SOURCES
AllSources ==
    << [url |-> "csdl.dichvucong.gov.vn", name |-> "gov_mau9_don_xin_viec", format |-> "doc"],
       [url |-> "static.topcv.vn", name |-> "topcv_don_xin_viec", format |-> "docx"],
       [url |-> "thanhpho.laichau.gov.vn", name |-> "laichau_phieu_dang_ky", format |-> "pdf"] >>

FORM_SOURCES == [i \in 1..MaxSources |-> AllSources[((i - 1) % 3) + 1]]

\* compute_file_hash(content): the digests of the contents a site may serve
Hashes == {"h1", "h2"}

\* the processes that run a crawl cycle: the loop of main() and the DAG task
Executors == {"main", "dag"}

ZeroStats == [new |-> 0, skipped |-> 0, failed |-> 0]

\* an executor about to call crawl_form_source for the first source
StartExecutor ==
    [pc |-> "check",           \* position in run_crawl / crawl_form_source
     i |-> 1,                  \* index in FORM_SOURCES of the source being crawled
     content_hash |-> "",
     existing |-> {},          \* result of is_form_already_crawled: no document or one
     s3_key |-> <<>>,
     uploaded |-> FALSE,       \* this call uploaded a blob
     insert_result |-> "none", \* this call's insert_one: none, ok, duplicate, error
     updated |-> FALSE,        \* this call's update_one of last_checked succeeded
     raised |-> FALSE,         \* this call ended in the except branch of crawl_form_source
     is_new |-> FALSE,         \* return value of crawl_form_source
     stats |-> ZeroStats,
     prev_hash |-> [k \in 1..MaxSources |-> ""],    \* history: hash fetched per source in the previous cycle
     prev_stored |-> [k \in 1..MaxSources |-> FALSE]] \* history: that call found or inserted the document

\* no overlay_pdf call is in progress
NoRequest == [kind |-> "none"]

NoOutput == [kind |-> "none"]

\* no bbox detection is in progress
NoDetectCall == [pc |-> "none"]

IngestIdle ==
    /\ web = [i \in 1..MaxSources |-> "h1"]
    /\ crawled_forms = {}
    /\ bucket = {}
    /\ now = 0
    /\ crawler = [e \in Executors |-> StartExecutor]
    /\ queue = {}
    /\ unnotified = {}
    /\ worker = "not_started"
    /\ forms = {}
    /\ processed = EmptyDict
    /\ detect = NoDetectCall

\* the result of a SessionManager call: "ok", the session data of a get,
\* None of a get, or the HTTPException(404) of an update
SmOut(kind, data) == [kind |-> kind, data |-> data]

\* no SessionManager call is in progress
SmIdle(out) == [pc |-> "idle", sid |-> "", data |-> "", out |-> out]

PipelineIdle ==
    /\ IngestIdle
    /\ fill_req = NoRequest
    /\ fill_out = NoOutput
    /\ ttl_left = EmptyDict
    /\ sm = SmIdle(SmOut("none", ""))
    /\ idle_for = EmptyDict

\* a lookup by url alone
is_form_already_crawled_byUrl(url, content_hash) ==
    {d \in crawled_forms : d.url = url}

\* is_form_already_crawled(db, url, content_hash): find_one by url and hash
is_form_already_crawled(url, content_hash) ==
    {d \in crawled_forms : d.url = url /\ d.content_hash = content_hash}

\* a collection without the unique index accepts every insert
UniqueIndexRejects_noIndex(url, content_hash) == FALSE

\* the unique index on (url, content_hash) created before the first cycle
\* rejects an insert whose pair is already in the collection
UniqueIndexRejects(url, content_hash) ==
    \E d \in crawled_forms : d.url = url /\ d.content_hash = content_hash

\* the except branch of crawl_form_source: log and return False
Caught(c) == [c EXCEPT !.pc = "return", !.raised = TRUE, !.is_new = FALSE]

\* crawl_form_source up to the lookup: download_form (may raise), hash, find_one
crawl_check(e, ok) ==
    LET c == crawler[e]
        source == FORM_SOURCES[c.i]
    IN /\ c.pc = "check"
       /\ IF ~ok
          THEN crawler' = [crawler EXCEPT ![e] = Caught(c)]
          ELSE LET found == is_form_already_crawled(source.url, web[c.i])
               IN crawler' = [crawler EXCEPT ![e] =
                      [c EXCEPT !.content_hash = web[c.i],
                                !.existing = IF found = {} THEN {} ELSE {CHOOSE d \in found : TRUE},
                                !.pc = IF found = {} THEN "upload" ELSE "update"]]
       /\ UNCHANGED <<web, crawled_forms, bucket, now>>
       /\ UNCHANGED <<appVars, apiVars, workerVars, ocrVars, fillVars, ttlVars>>

\* an update that sets crawled_at instead
SetLastChecked_crawledAt(d, t) == [d EXCEPT !.crawled_at = t]

\* {"$set": {"last_checked": datetime.utcnow()}}
SetLastChecked(d, t) == [d EXCEPT !.last_checked = t]

\* the duplicate branch: update_one of last_checked (may raise), return False
crawl_update(e, ok) ==
    LET c == crawler[e]
    IN /\ c.pc = "update"
       /\ IF ~ok
          THEN /\ crawler' = [crawler EXCEPT ![e] = Caught(c)]
               /\ UNCHANGED crawled_forms
          ELSE /\ crawled_forms' =
                     {IF d._id \in {x._id : x \in c.existing}
                      THEN SetLastChecked(d, now) ELSE d : d \in crawled_forms}
               /\ crawler' = [crawler EXCEPT ![e].pc = "return", ![e].updated = TRUE]
       /\ UNCHANGED <<web, bucket, now>>
       /\ UNCHANGED <<appVars, apiVars, workerVars, ocrVars, fillVars, ttlVars>>

\* s3_key = f"raw/{name}-{ts}.{format}" and upload_to_s3 (may raise)
crawl_upload(e, ok) ==
    LET c == crawler[e]
        source == FORM_SOURCES[c.i]
        s3_key == <<source.name, now, source.format>>
    IN /\ c.pc = "upload"
       /\ IF ~ok
          THEN /\ crawler' = [crawler EXCEPT ![e] = Caught(c)]
               /\ UNCHANGED bucket
          ELSE /\ bucket' = bucket \cup {s3_key}
               /\ crawler' = [crawler EXCEPT ![e].pc = "insert", ![e].s3_key = s3_key,
                                              ![e].uploaded = TRUE]
       /\ UNCHANGED <<web, crawled_forms, now>>
       /\ UNCHANGED <<appVars, apiVars, workerVars, ocrVars, fillVars, ttlVars>>

\* db.crawled_forms.insert_one (may raise: connection error, or duplicate key)
crawl_insert(e, ok) ==
    LET c == crawler[e]
        source == FORM_SOURCES[c.i]
        doc == [_id |-> <<e, c.i, now>>,
                url |-> source.url,
                content_hash |-> c.content_hash,
                s3_key |-> c.s3_key,
                crawled_at |-> now,
                last_checked |-> now]
    IN /\ c.pc = "insert"
       /\ IF ~ok
          THEN /\ crawler' = [crawler EXCEPT ![e] = [Caught(c) EXCEPT !.insert_result = "error"]]
               /\ UNCHANGED crawled_forms
          ELSE IF UniqueIndexRejects(source.url, c.content_hash)
          THEN /\ crawler' = [crawler EXCEPT ![e] = [Caught(c) EXCEPT !.insert_result = "duplicate"]]
               /\ UNCHANGED crawled_forms
          ELSE /\ crawled_forms' = crawled_forms \cup {doc}
               /\ crawler' = [crawler EXCEPT ![e].pc = "return", ![e].is_new = TRUE,
                                              ![e].insert_result = "ok"]
       /\ UNCHANGED <<web, bucket, now>>
       /\ UNCHANGED <<appVars, apiVars, workerVars, ocrVars, fillVars, ttlVars>>

\* the loop body of run_crawl / run_crawler_task after the call returned:
\* is_new counts as new, otherwise as skipped (crawl_form_source catches
\* every Exception, so the except branch that counts failed is not taken);
\* then the next source, or the end of the cycle
crawl_return(e) ==
    LET c == crawler[e]
        stats == IF c.is_new THEN [c.stats EXCEPT !.new = @ + 1]
                 ELSE [c.stats EXCEPT !.skipped = @ + 1]
    IN /\ c.pc = "return"
       /\ crawler' = [crawler EXCEPT ![e] =
              [StartExecutor EXCEPT !.stats = stats,
                                    !.prev_hash = [c.prev_hash EXCEPT ![c.i] = c.content_hash],
                                    !.prev_stored = [c.prev_stored EXCEPT
                                                        ![c.i] = c.is_new \/ c.existing # {}],
                                    !.pc = IF c.i < Len(FORM_SOURCES) THEN "check" ELSE "done",
                                    !.i = IF c.i < Len(FORM_SOURCES) THEN c.i + 1 ELSE c.i]]
       /\ UNCHANGED <<web, crawled_forms, bucket, now>>
       /\ UNCHANGED <<appVars, apiVars, workerVars, ocrVars, fillVars, ttlVars>>

\* the loop of main(): time.sleep(24 * 3600), then run_crawl() starts the
\* next cycle with zeroed stats; during the day the sites may have changed
\* what they serve.  The DAG task is one cycle and returns its stats.
run_crawl(e, served) ==
    /\ e = "main"
    /\ crawler[e].pc = "done"
    /\ now < MaxTime
    /\ now' = now + 1
    /\ web' = served
    /\ crawler' = [crawler EXCEPT ![e].pc = "check", ![e].i = 1, ![e].stats = ZeroStats]
    /\ UNCHANGED <<crawled_forms, bucket>>
    /\ UNCHANGED <<appVars, apiVars, workerVars, ocrVars, fillVars, ttlVars>>

\* ------------------------------------------------------------------------
\* worker/app: ocr_extract_fields and run_once
\* ------------------------------------------------------------------------
\* how many times the model lets one event be processed
MaxDeliveries == 2

\* how many objects the model lets be created
MaxEvents == 1

\* the objects whose creation is notified to the queue: one per format
EventKeys == {<<AllSources[i].name, 0, AllSources[i].format>> : i \in 1..3}

\* a message whose body has no bucket or key
BadMessage == <<>>

\* _detect_file_type on the bytes of an object stored under a key of that format
_detect_file_type(key) ==
    CASE key[3] = "pdf" -> "pdf"
      [] key[3] = "docx" -> "docx_or_zip"
      [] key[3] = "doc" -> "doc_ole"
      [] OTHER -> "unknown"

\* the characters [a-z] that occur in the labels of the model
AsciiLower == {"a", "b", "d", "e", "f", "h", "i", "k", "o", "p", "r", "s", "t"}

\* _slugify(label): lower-case, every run of characters outside [a-z0-9]
\* becomes one "_", leading and trailing "_" are stripped, "field" if empty
_slugify(label) ==
    LET s1 == Lower(label)
        s2 == [i \in 1..Len(s1) |-> IF s1[i] \in AsciiLower \cup Digits THEN s1[i] ELSE "_"]
        keep == {i \in 1..Len(s2) : s2[i] # "_" \/ i = 1 \/ s2[i - 1] # "_"}
        s3 == [k \in 1..Cardinality(keep) |-> s2[Nth(keep, k)]]
        core == {i \in 1..Len(s3) : s3[i] # "_"}
    IN IF core = {} THEN <<"f", "i", "e", "l", "d">>
       ELSE SubSeq(s3, Nth(core, 1), Nth(core, Cardinality(core)))

\* labels found in the documents of the model
LblDate == <<"D", "a", "t", "e">>

LblDateOfBirth == <<"D", "a", "t", "e", " ", "o", "f", " ", "b", "i", "r", "t", "h">>

LblDateOfBirthStar == LblDateOfBirth \o <<"*">>

\* what the text of a document gives the three extractors: the labels listed
\* by _extract_fields_with_openai ([] when it is unavailable or fails), the
\* labels of _infer_fields_from_text, and the labels of
\* _detect_form_fields_from_patterns
ExtractionOutcomes ==
    {[openai |-> <<LblDateOfBirth, LblDate>>, inferred |-> <<LblDateOfBirth>>, patterns |-> <<>>],
     [openai |-> <<LblDate, LblDate>>, inferred |-> <<LblDateOfBirth>>, patterns |-> <<>>],
     [openai |-> <<>>, inferred |-> <<LblDateOfBirth>>, patterns |-> <<LblDateOfBirth, LblDate>>],
     [openai |-> <<>>, inferred |-> <<LblDateOfBirth>>, patterns |-> <<LblDateOfBirthStar>>]}

\* the fallback of ocr_extract_fields: the inferred fields, then every pattern
\* label whose lower-cased form is not among the labels so far
RECURSIVE AddPatternLabels(_, _)
AddPatternLabels(labels, patterns) ==
    IF patterns = <<>> THEN labels
    ELSE IF \E i \in 1..Len(labels) : Lower(labels[i]) = Lower(Head(patterns))
         THEN AddPatternLabels(labels, Tail(patterns))
         ELSE AddPatternLabels(Append(labels, Head(patterns)), Tail(patterns))

\* the field ids ocr_extract_fields builds: the slug of every label
FieldIds(o) ==
    LET labels == IF o.openai # <<>> THEN o.openai
                  ELSE AddPatternLabels(o.inferred, o.patterns)
    IN [i \in 1..Len(labels) |-> _slugify(labels[i])]

\* the field ids the text extraction may produce for a document
ExtractedFields == {FieldIds(o) : o \in ExtractionOutcomes}

\* _detect_all_input_fields_layout: {"field_positions": [...]}, n positions
LayoutResults == {[n |-> k, image_size |-> FALSE, error |-> FALSE] : k \in {0, 1, 3}}

\* _detect_form_fields_opencv: positions with image_width and image_height,
\* or {"field_positions": []} when it caught an exception
KeywordResults ==
    {[n |-> 2, image_size |-> TRUE, error |-> FALSE],
     [n |-> 0, image_size |-> TRUE, error |-> FALSE],
     [n |-> 0, image_size |-> FALSE, error |-> FALSE]}

\* what either detector returns when an exception is raised inside it:
\* {"field_positions": []}
DetectorRaised == [n |-> 0, image_size |-> FALSE, error |-> FALSE]

\* bbox_detection_result = {} when no detection runs
NoDetection == [n |-> 0, image_size |-> FALSE, error |-> FALSE]

\* the except branch: {"field_positions": [], "error": str(bbox_err)}
DetectionFailed == [n |-> 0, image_size |-> FALSE, error |-> TRUE]

\* a fallback that also runs when the layout detector found three positions
TooFewPositions_below4(detected_count) == detected_count < 4

\* if detected_count < 3: the layout detector found too few fields
TooFewPositions(detected_count) == detected_count < 3

\* the detection step of ocr_extract_fields: layout first, the keyword
\* detector when layout found fewer than 3 positions and only if it found more
DetectBbox(layout, keyword, raises) ==
    IF raises THEN DetectionFailed
    ELSE IF TooFewPositions(layout.n) /\ keyword.n > layout.n THEN keyword
    ELSE layout

\* the same step call by call.  A call of ocr_extract_fields with its
\* inputs: is_pdf says file_type == "pdf" or converted_pdf_bytes, raises
\* names the detector whose exception reaches the except branch
DetectCall(is_pdf, layout, keyword, raises) ==
    [pc |-> "start", is_pdf |-> is_pdf, layout |-> layout, keyword |-> keyword,
     raises |-> raises,
     calls |-> <<>>,            \* history: the detectors called, in order
     bbox_detection_result |-> NoDetection]

DetectInputs ==
    {DetectCall(is_pdf, layout, keyword, raises) :
        is_pdf \in BOOLEAN,
        layout \in LayoutResults \cup
                  {[n |-> k, image_size |-> FALSE, error |-> FALSE] : k \in {2, 4}},
        keyword \in KeywordResults,
        raises \in {"none", "layout", "keyword"}}

DetectFrame == UNCHANGED <<appVars, apiVars, crawlerVars, workerVars, fillVars, ttlVars>>

\* the file is not a PDF and was not converted: no detector is called
detect_skip ==
    /\ detect.pc = "start" /\ ~detect.is_pdf
    /\ detect' = [detect EXCEPT !.pc = "done"]
    /\ DetectFrame

\* bbox_detection_result = _detect_all_input_fields_layout(pdf_for_bbox)
\* and the test of detected_count
detect_layout ==
    /\ detect.pc = "start" /\ detect.is_pdf
    /\ detect' =
          IF detect.raises = "layout"
          THEN [detect EXCEPT !.pc = "done", !.calls = <<"layout">>,
                              !.bbox_detection_result = DetectionFailed]
          ELSE [detect EXCEPT !.pc = IF TooFewPositions(detect.layout.n)
                                     THEN "keyword" ELSE "done",
                              !.calls = <<"layout">>,
                              !.bbox_detection_result = detect.layout]
    /\ DetectFrame

\* keyword_result = _detect_form_fields_opencv(pdf_for_bbox), taken when it
\* has more positions than the layout result
detect_keyword ==
    /\ detect.pc = "keyword"
    /\ detect' =
          IF detect.raises = "keyword"
          THEN [detect EXCEPT !.pc = "done", !.calls = Append(@, "keyword"),
                              !.bbox_detection_result = DetectionFailed]
          ELSE [detect EXCEPT !.pc = "done", !.calls = Append(@, "keyword"),
                              !.bbox_detection_result =
                                  IF detect.keyword.n > detect.layout.n
                                  THEN detect.keyword ELSE @]
    /\ DetectFrame

\* ocr_extract_fields(file_bytes, key_hint): conv_ok says whether
\* _convert_doc_to_pdf returned (it raises on failure or timeout, which is
\* caught and falls back to the original bytes); matched says whether some
\* field label matched a detected position
ocr_extract_fields(key, conv_ok, ids, layout, keyword, raises, matched) ==
    LET file_type0 == _detect_file_type(key)
        converted == file_type0 \in {"doc_ole", "docx_or_zip"} /\ conv_ok
        file_type == IF converted THEN "pdf" ELSE file_type0
        bbox_detection == IF file_type = "pdf" \/ converted
                          THEN DetectBbox(layout, keyword, raises)
                          ELSE NoDetection
    IN [fields |-> [i \in 1..Len(ids) |->
                       [id |-> ids[i],
                        bbox |-> bbox_detection.n > 0 /\ matched /\ i = 1]],
        bbox_detection |-> bbox_detection,
        was_converted |-> converted]

\* S3 notifies the queue of a created object
object_created(key) ==
    /\ key \notin bucket
    /\ Cardinality(bucket \cap EventKeys) < MaxEvents
    /\ bucket' = bucket \cup {key}
    /\ queue' = queue \cup {key}
    /\ UNCHANGED <<forms, unnotified, worker, processed>>
    /\ UNCHANGED <<web, crawled_forms, now, crawler>>
    /\ UNCHANGED <<appVars, apiVars, ocrVars, fillVars, ttlVars>>

\* a message without bucket and key arrives
bad_message_sent ==
    /\ BadMessage \notin queue
    /\ queue' = queue \cup {BadMessage}
    /\ UNCHANGED <<bucket, forms, unnotified, worker, processed>>
    /\ UNCHANGED <<web, crawled_forms, now, crawler>>
    /\ UNCHANGED <<appVars, apiVars, ocrVars, fillVars, ttlVars>>

\* db.forms.update_one({"id": id}, {"$set": schema}, upsert=True): $set
\* writes the keys of schema and leaves the other keys of the stored
\* document, so an original_key stays when schema has none
Upsert(doc) ==
    IF \E d \in forms : d.id = doc.id
    THEN LET old == CHOOSE d \in forms : d.id = doc.id
         IN (forms \ {old}) \cup
               {[doc EXCEPT !.original_key =
                               IF doc.original_key = <<>> THEN old.original_key ELSE @]}
    ELSE forms \cup {doc}

\* the number of processings of the event of key that reached the upsert
Deliveries(key) == IF key \in DOMAIN processed THEN processed[key].n ELSE 0

\* a worker that deletes the message before it stores the schema
AfterException_deleted(msg) == queue \ {msg}

\* the queue when update_one raised: the exception leaves run_once before
\* delete_message is reached
AfterException(msg) == queue

\* python -m app.main: the process starts and main() enters its loop
main ==
    /\ worker # "running"
    /\ worker' = "running"
    /\ UNCHANGED <<bucket, queue, forms, unnotified, processed>>
    /\ UNCHANGED <<web, crawled_forms, now, crawler>>
    /\ UNCHANGED <<appVars, apiVars, ocrVars, fillVars, ttlVars>>

\* a loop that catches what run_once raises and goes on
AfterRaise_goesOn == "running"

\* main() calls run_once() with no try around it: what run_once raises
\* leaves the loop and ends the process
AfterRaise == "exited"

\* the object store delivers the object-created event of an object the
\* worker put
converted_object_created(key) ==
    /\ key \in unnotified
    /\ unnotified' = unnotified \ {key}
    /\ queue' = queue \cup {key}
    /\ UNCHANGED <<bucket, forms, worker, processed>>
    /\ UNCHANGED <<web, crawled_forms, now, crawler>>
    /\ UNCHANGED <<appVars, apiVars, ocrVars, fillVars, ttlVars>>

\* one iteration of the loop of main(): run_once on the message msg that
\* receive_message returned; fail_at names the call that raises, which ends
\* run_once with the message not deleted
run_once(msg, conv_ok, ids, layout, keyword, raises, matched, fail_at) ==
    /\ worker = "running"
    /\ msg \in queue
    /\ UNCHANGED <<web, crawled_forms, now, crawler>>
    /\ UNCHANGED <<appVars, apiVars, ocrVars, fillVars, ttlVars>>
    /\ IF msg = BadMessage
       THEN /\ queue' = queue \ {msg}
            /\ UNCHANGED <<bucket, forms, unnotified, worker, processed>>
       ELSE
       /\ Deliveries(msg) < MaxDeliveries
       /\ IF fail_at = "get_object"
          THEN /\ worker' = AfterRaise
               /\ UNCHANGED <<bucket, forms, unnotified, processed, queue>>
          ELSE
          LET schema == ocr_extract_fields(msg, conv_ok, ids, layout, keyword, raises, matched)
              pdf_key == <<msg[1], msg[2], "pdf">>
              id == IF schema.was_converted THEN pdf_key ELSE msg
              doc == [id |-> id,
                      source |-> id,
                      original_key |-> IF schema.was_converted THEN msg ELSE <<>>,
                      fields |-> schema.fields,
                      bbox_detection |-> schema.bbox_detection]
          IN IF schema.was_converted /\ fail_at = "put_object"
             THEN /\ worker' = AfterRaise
                  /\ UNCHANGED <<bucket, forms, unnotified, processed, queue>>
             ELSE /\ bucket' = IF schema.was_converted THEN bucket \cup {pdf_key} ELSE bucket
                  /\ unnotified' = IF schema.was_converted
                                   THEN unnotified \cup {pdf_key} ELSE unnotified
                  /\ IF fail_at = "update_one"
                     THEN /\ worker' = AfterRaise
                          /\ UNCHANGED <<forms, processed>>
                          /\ queue' = AfterException(msg)
                     ELSE /\ forms' = Upsert(doc)
                          /\ processed' = DictSet(processed, msg,
                                 IF msg \in DOMAIN processed
                                 THEN [processed[msg] EXCEPT !.n = @ + 1]
                                 ELSE [n |-> 1, id |-> id, ids |-> ids])
                          /\ IF fail_at = "delete_message"
                             THEN /\ worker' = AfterRaise
                                  /\ UNCHANGED queue
                             ELSE /\ UNCHANGED worker
                                  /\ queue' = queue \ {msg}

\* ------------------------------------------------------------------------
\* api/app/main.py: overlay_pdf
\* ------------------------------------------------------------------------
\* the bytes of a PDF: whether PdfReader can read them, which writer
\* serialised them, the media box of the first page, and the pages; a page
\* is where it comes from and the strings drawn over it
Page(src, no, drawn) == [src |-> src, no |-> no, drawn |-> drawn]

PdfBytes(readable, producer, w, h, pages) ==
    [kind |-> "pdf", readable |-> readable, producer |-> producer,
     page_width |-> w, page_height |-> h, pages |-> pages]

BasePages(n) == [i \in 1..n |-> Page("base", i, <<>>)]

\* the stored PDFs of the model: A4 with one and with two pages, a short
\* page, and bytes that PdfReader rejects
BasePdfs ==
    {PdfBytes(TRUE, "source", 595, 842, BasePages(1)),
     PdfBytes(TRUE, "source", 595, 842, BasePages(2)),
     PdfBytes(TRUE, "source", 595, 200, BasePages(1)),
     PdfBytes(FALSE, "source", 0, 0, <<>>)}

\* PdfWriter.write: the pages serialised anew by pypdf
PdfWriterWrite(base, pages) ==
    PdfBytes(TRUE, "pypdf", base.page_width, base.page_height, pages)

NoBbox == [set |-> FALSE, x |-> 0, y |-> 0, height |-> 0]

Bbox(x, y, height) == [set |-> TRUE, x |-> x, y |-> y, height |-> height]

\* the form schemas of the model: a text field and a compound field, each
\* with or without a bbox, with or without the image size of the detection
OverlaySchemas(pdf) ==
    {[fields |-> <<[id |-> "q1", label |-> "L1", page |-> 1, bbox |-> b1,
                    subfields |-> <<>>],
                   [id |-> "q2", label |-> "L2",
                    page |-> IF Len(pdf.pages) >= 2 THEN 2 ELSE 1, bbox |-> b2,
                    subfields |-> <<[id |-> "so", prompt |-> "so"],
                                    [id |-> "cap_ngay", prompt |-> "ngay cap"]>>]>>,
      image_width |-> dims[1], image_height |-> dims[2]] :
        b1 \in {NoBbox, Bbox(230, 700, 20)},
        b2 \in {NoBbox, Bbox(100, 50, 10)},
        dims \in {<<0, 0>>, <<2480, 3508>>}}

\* the answers of a session: per field absent, or one of these values
OverlayValues ==
    [q1 |-> {JStr(<<"a", "b">>), JStr(<<" ">>)},
     q2 |-> {JStr(<<"a", "b">>),
             JDict([k \in {"so", "cap_ngay"} |->
                      IF k = "so" THEN JStr(<<"1">>) ELSE JStr(<<"2">>)])}]

OverlayAnswers ==
    UNION {{a \in [ks -> UNION {OverlayValues[k] : k \in ks}] :
               \A k \in ks : a[k] \in OverlayValues[k]} : ks \in SUBSET {"q1", "q2"}}

OverlayInputs ==
    UNION {{[kind |-> "call", pdf |-> pdf, answers |-> a, schema |-> sc] :
               sc \in OverlaySchemas(pdf), a \in OverlayAnswers} : pdf \in BasePdfs}

\* str(value): a string is itself, a dict is its Python repr
PyStr(value) == IF value.t = "dict" THEN [t |-> "repr", s |-> <<>>, d |-> value.d] ELSE value

\* not value or str(value).strip() == ""
EmptyValue(value) ==
    \/ value.t = "null"
    \/ value.t = "str" /\ Strip(value.s) = <<>>
    \/ value.t = "dict" /\ DOMAIN value.d = {}

\* one drawString: position in tenths of a point, font, label and text, and
\* the field it is drawn for
Draw(field_id, x10, y10, font, label, text) ==
    [field_id |-> field_id, x10 |-> x10, y10 |-> y10, font |-> font, label |-> label,
     text |-> text]

\* num / den in tenths, rounded to nearest
Tenths(num, den) == (20 * num + den) \div (2 * den)

\* the draw position of a bbox: x * scale_x and
\* page_height - y * scale_y - 0.7 * (height * scale_y), where the scale is
\* page size over image size, or 1.0 without an image size
BboxPosition_noBaseline(pdf, schema, bbox) ==
    LET scaled == schema.image_width # 0 /\ schema.image_height # 0
        iw == IF scaled THEN schema.image_width ELSE 1
        ih == IF scaled THEN schema.image_height ELSE 1
        pw == IF scaled THEN pdf.page_width ELSE 1
        ph == IF scaled THEN pdf.page_height ELSE 1
    IN [x10 |-> Tenths(bbox.x * pw, iw),
        y10 |-> Tenths((10 * pdf.page_height * ih - 10 * bbox.y * ph), 10 * ih)]

BboxPosition(pdf, schema, bbox) ==
    LET scaled == schema.image_width # 0 /\ schema.image_height # 0
        iw == IF scaled THEN schema.image_width ELSE 1
        ih == IF scaled THEN schema.image_height ELSE 1
        pw == IF scaled THEN pdf.page_width ELSE 1
        ph == IF scaled THEN pdf.page_height ELSE 1
    IN [x10 |-> Tenths(bbox.x * pw, iw),
        y10 |-> Tenths((10 * pdf.page_height * ih - (10 * bbox.y + 7 * bbox.height) * ph), 10 * ih)]

\* the answered field ids in the order the answers are iterated
AnswerOrder_firstOnly(answers) ==
    LET ids == <<"q1", "q2">>
        keep == {i \in 1..Len(ids) : ids[i] \in DOMAIN answers}
    IN [k \in 1..(IF keep = {} THEN 0 ELSE 1) |-> ids[Nth(keep, k)]]

AnswerOrder(answers) ==
    LET ids == <<"q1", "q2">>
        keep == {i \in 1..Len(ids) : ids[i] \in DOMAIN answers}
    IN [k \in 1..Cardinality(keep) |-> ids[Nth(keep, k)]]

SchemaField(schema, field_id) ==
    schema.fields[CHOOSE i \in 1..Len(schema.fields) : schema.fields[i].id = field_id]

\* field_positions: the fields of the schema that have an id and a bbox
FieldPositions(schema) ==
    {schema.fields[i].id : i \in {j \in 1..Len(schema.fields) : schema.fields[j].bbox.set}}

\* has_valid_positions: every answered field id is in field_positions
HasValidPositions(schema, answers) ==
    \A k \in DOMAIN answers : k \in FieldPositions(schema)

\* the summary pages: title, then label and value of every non-empty answer,
\* 42 points each, a new page when y falls below 80
RECURSIVE SummaryPages(_, _, _, _, _, _)
SummaryPages(pdf, schema, answers, order, y, current) ==
    IF order = <<>> THEN <<current>>
    ELSE LET field_id == Head(order)
             value == answers[field_id]
         IN IF EmptyValue(value)
            THEN SummaryPages(pdf, schema, answers, Tail(order), y, current)
            ELSE LET entry == Draw(field_id, 720, 10 * y, "unicode",
                                   SchemaField(schema, field_id).label, PyStr(value))
                     drawn == [current EXCEPT !.drawn = Append(@, entry)]
                     y2 == y - 42
                 IN IF y2 < 80
                    THEN <<drawn>> \o SummaryPages(pdf, schema, answers, Tail(order),
                                                   pdf.page_height - 60,
                                                   Page("summary", current.no + 1, <<>>))
                    ELSE SummaryPages(pdf, schema, answers, Tail(order), y2, drawn)

\* the strings the bbox branch draws on page page_num
BboxDraws(pdf, schema, answers, font, page_num) ==
    LET order == AnswerOrder(answers)
        on == {i \in 1..Len(order) :
                  /\ ~EmptyValue(answers[order[i]])
                  /\ SchemaField(schema, order[i]).page = page_num}
    IN [k \in 1..Cardinality(on) |->
          LET field == SchemaField(schema, order[Nth(on, k)])
              pos == BboxPosition(pdf, schema, field.bbox)
          IN Draw(field.id, pos.x10, pos.y10, font, "", PyStr(answers[field.id]))]

\* except Exception: return base_pdf_bytes
OnError_rewritten(pdf) == PdfWriterWrite(pdf, pdf.pages)

OnError(pdf) == pdf

\* overlay_pdf(base_pdf_bytes, annotations, form_schema); font_raises: the
\* registration of LiberationSerif raises (caught, the default font is
\* used); fail_at: the later step that raises
overlay_pdf(pdf, answers, schema, font_raises, fail_at) ==
    IF ~pdf.readable THEN OnError(pdf)
    ELSE LET font == IF font_raises THEN "unicode" ELSE "LiberationSerif"
         IN IF DOMAIN answers = {} THEN PdfWriterWrite(pdf, pdf.pages)
            ELSE IF ~HasValidPositions(schema, answers)
            THEN IF fail_at = "draw" THEN OnError(pdf)
                 ELSE PdfWriterWrite(pdf,
                         pdf.pages \o SummaryPages(pdf, schema, answers, AnswerOrder(answers),
                                                   pdf.page_height - 120,
                                                   Page("summary", 1, <<>>)))
            ELSE LET merged == [i \in 1..Len(pdf.pages) |->
                                   [pdf.pages[i] EXCEPT
                                       !.drawn = BboxDraws(pdf, schema, answers, font, i)]]
                     drew == \E i \in 1..Len(merged) : merged[i].drawn # <<>>
                 IN IF drew /\ fail_at \in {"draw", "merge"} THEN OnError(pdf)
                    ELSE PdfWriterWrite(pdf, merged)

\* fill_pdf calls overlay_pdf on the stored PDF, the answers and the form
fill_pdf(font_raises, fail_at) ==
    /\ fill_req # NoRequest
    /\ fill_out = NoOutput
    /\ fill_out' = [kind |-> "done", font_raises |-> font_raises, fail_at |-> fail_at,
                    bytes |-> overlay_pdf(fill_req.pdf, fill_req.answers, fill_req.schema,
                                          font_raises, fail_at)]
    /\ UNCHANGED <<fill_req>>
    /\ UNCHANGED <<appVars, apiVars, crawlerVars, workerVars, ocrVars, ttlVars>>

\* ------------------------------------------------------------------------
\* app.py: SessionManager over Redis keys with a TTL
\* ------------------------------------------------------------------------
\* how many ticks of the model clock settings.session_ttl_seconds lasts
SessionTtl == 2

Sids == {"s1", "s2"}

\* the serialized session data
SessionData == {"d1", "d2"}

DictDel(d, k) == [x \in (DOMAIN d) \ {k} |-> d[x]]

\* the other variables of a SessionManager step
SmFrame == UNCHANGED <<openai_api_key, pending_field, app_resp, qtask, apiVars,
                       crawlerVars, workerVars, ocrVars, fillVars>>

\* redis.setex(key, ttl, serialized)
Setex(session_id, data) ==
    /\ redis' = DictSet(redis, session_id, data)
    /\ ttl_left' = DictSet(ttl_left, session_id, SessionTtl)
    /\ idle_for' = DictSet(idle_for, session_id, 0)

\* SessionManager.create
sm_create(session_id, data) ==
    /\ sm.pc = "idle"
    /\ Setex(session_id, data)
    /\ sm' = SmIdle(SmOut("ok", ""))
    /\ SmFrame

\* SessionManager.get, first command: data = redis.get(key)
sm_get(session_id) ==
    /\ sm.pc = "idle"
    /\ IF session_id \in DOMAIN redis
       THEN /\ sm' = [pc |-> "get", sid |-> session_id, data |-> redis[session_id],
                      out |-> SmOut("none", "")]
            /\ idle_for' = DictSet(idle_for, session_id, 0)
       ELSE /\ sm' = SmIdle(SmOut("None", ""))
            /\ UNCHANGED idle_for
    /\ UNCHANGED <<redis, ttl_left>>
    /\ SmFrame

\* SessionManager.get, second command: redis.expire(key, ttl), which does
\* nothing when the key is gone, then the data is returned
sm_get_expire ==
    /\ sm.pc = "get"
    /\ ttl_left' = IF sm.sid \in DOMAIN ttl_left
                   THEN DictSet(ttl_left, sm.sid, SessionTtl) ELSE ttl_left
    /\ sm' = SmIdle(SmOut("value", sm.data))
    /\ UNCHANGED <<redis, idle_for>>
    /\ SmFrame

\* SessionManager.update, first command: redis.exists(key), 404 when absent
sm_update_upsert(session_id, data) ==
    /\ sm.pc = "idle"
    /\ sm' = [pc |-> "update", sid |-> session_id, data |-> data, out |-> SmOut("none", "")]
    /\ UNCHANGED <<redis, ttl_left, idle_for>>
    /\ SmFrame

sm_update(session_id, data) ==
    /\ sm.pc = "idle"
    /\ sm' = IF session_id \in DOMAIN redis
             THEN [pc |-> "update", sid |-> session_id, data |-> data, out |-> SmOut("none", "")]
             ELSE SmIdle(SmOut("404", ""))
    /\ UNCHANGED <<redis, ttl_left, idle_for>>
    /\ SmFrame

\* SessionManager.update, second command: redis.setex(key, ttl, serialized)
sm_update_setex ==
    /\ sm.pc = "update"
    /\ Setex(sm.sid, sm.data)
    /\ sm' = SmIdle(SmOut("ok", ""))
    /\ SmFrame

\* SessionManager.delete
sm_delete(session_id) ==
    /\ sm.pc = "idle"
    /\ redis' = DictDel(redis, session_id)
    /\ ttl_left' = DictDel(ttl_left, session_id)
    /\ idle_for' = DictDel(idle_for, session_id)
    /\ sm' = SmIdle(SmOut("ok", ""))
    /\ SmFrame

\* SessionManager.delete called by another request while the call of sm is
\* between its two commands
sm_delete_concurrent(session_id) ==
    /\ sm.pc # "idle"
    /\ redis' = DictDel(redis, session_id)
    /\ ttl_left' = DictDel(ttl_left, session_id)
    /\ idle_for' = DictDel(idle_for, session_id)
    /\ UNCHANGED sm
    /\ SmFrame

\* SessionManager.extend_ttl: exists, then expire
sm_extend_ttl(session_id) ==
    /\ sm.pc = "idle"
    /\ ttl_left' = IF session_id \in DOMAIN ttl_left
                   THEN DictSet(ttl_left, session_id, SessionTtl) ELSE ttl_left
    /\ sm' = SmIdle(SmOut("ok", ""))
    /\ UNCHANGED <<redis, idle_for>>
    /\ SmFrame

\* one second passes in Redis: every key is a second closer to expiry, and a
\* key whose time is up is removed
redis_tick ==
    /\ DOMAIN idle_for # {}
    /\ LET alive == {k \in DOMAIN ttl_left : ttl_left[k] > 1}
       IN /\ ttl_left' = [k \in alive |-> ttl_left[k] - 1]
          /\ redis' = [k \in alive |-> redis[k]]
    /\ idle_for' = [k \in DOMAIN idle_for |->
                      IF idle_for[k] < SessionTtl THEN idle_for[k] + 1 ELSE idle_for[k]]
    /\ UNCHANGED sm
    /\ SmFrame

\* ------------------------------------------------------------------------
\* Specification of the app.py engine
\* ------------------------------------------------------------------------
NoApiResp == [code |-> 0, nextQuestion |-> "", done |-> FALSE, validation |-> NoValidation]

Init ==
    /\ openai_api_key \in BOOLEAN
    /\ redis = EmptyDict
    /\ pending_field = ""
    /\ app_resp = AppResp(0, "none", "", "")
    /\ qtask = NoTask
    /\ OPENAI_API_KEY = FALSE
    /\ db_sessions = EmptyDict
    /\ api_resp = NoApiResp
    /\ PipelineIdle

Next ==
    \/ \E fid \in FORM_INDEX, found \in BOOLEAN : start_session(fid, found, FALSE)
    \/ \E answer \in AnswerInputs, grader \in GraderOutcomes : answer_field(answer, grader)
    \/ \E yes \in BOOLEAN : confirm(yes)
    \/ session_expire

Spec == Init /\ [][Next]_vars

\* the engine with its read-only and preview endpoints
NextPreview ==
    \/ \E fid \in FORM_INDEX, found \in BOOLEAN : start_session(fid, found, FALSE)
    \/ \E answer \in AnswerInputs, grader \in GraderOutcomes : answer_field(answer, grader)
    \/ \E yes \in BOOLEAN : confirm(yes)
    \/ question_next
    \/ \E llm_ok \in BOOLEAN : preview(llm_ok)
    \/ session_expire

SpecPreview == Init /\ [][NextPreview]_vars

\* the engine with the background task of /session/start; the cache can
\* hold questions only when a client exists
NextQuestions ==
    \/ \E fid \in FORM_INDEX, found \in BOOLEAN, cached \in BOOLEAN :
          (cached => openai_api_key) /\ start_session(fid, found, cached)
    \/ \E answer \in AnswerInputs, grader \in GraderOutcomes : answer_field(answer, grader)
    \/ \E yes \in BOOLEAN : confirm(yes)
    \/ \E llm_ok \in BOOLEAN : generate_questions_async(llm_ok)
    \/ generate_questions_update
    \/ session_expire

SpecQuestions == Init /\ [][NextQuestions]_vars

\* ------------------------------------------------------------------------
\* Specification of the api/app/main.py engine
\* ------------------------------------------------------------------------
InitApi ==
    /\ openai_api_key = FALSE
    /\ redis = EmptyDict
    /\ pending_field = ""
    /\ app_resp = AppResp(0, "none", "", "")
    /\ qtask = NoTask
    /\ OPENAI_API_KEY \in BOOLEAN
    /\ db_sessions = EmptyDict
    /\ api_resp = NoApiResp
    /\ PipelineIdle

NextApi ==
    \/ \E form \in ApiForms, found \in BOOLEAN : api_start_session(form, found)
    \/ \E hasAnswer \in BOOLEAN, answer_value \in ApiInputs :
          \E fieldId \in (IF ApiHasSession THEN FormIds(session.formId) ELSE {UnknownId}) :
             \E llm \in TurnReplies(hasAnswer, fieldId, answer_value) :
                \E gen \in (IF ApiHasSession THEN GenReplies(session.formId) ELSE {NoCall}) :
                   next_question(hasAnswer, fieldId, answer_value, llm, gen)

SpecApi == InitApi /\ [][NextApi]_vars

\* ------------------------------------------------------------------------
\* Specification of a session with the LLM permanently unavailable, on a form
\* without compound fields, in which the user answers every presented
\* question with a non-empty answer that the field's validators accept.  The
\* two engines are separate services with separate stores: a behaviour runs
\* one of them.
\* ------------------------------------------------------------------------
InitNoLLM ==
    /\ openai_api_key = FALSE
    /\ redis = EmptyDict
    /\ pending_field = ""
    /\ app_resp = AppResp(0, "none", "", "")
    /\ qtask = NoTask
    /\ OPENAI_API_KEY = FALSE
    /\ db_sessions = EmptyDict
    /\ api_resp = NoApiResp
    /\ PipelineIdle

NonCompoundForms == {form \in ApiForms : \A i \in 1..Len(form) : form[i].type # "compound"}

\* the user answers the question of the current field of the app.py session
UserAnswers ==
    \E answer \in AnswerInputs :
        /\ HasSession
        /\ st.stage = "ask"
        /\ st.field_idx < Len(st.form_id)
        /\ Strip(answer) # <<>>
        /\ ValidateField(st.form_id[st.field_idx + 1], Strip(answer)).ok
        /\ answer_field(answer, "clean")

\* the client fetches the first question of the api session
ApiFirstQuestion ==
    /\ ApiHasSession
    /\ api_resp = NoApiResp
    /\ next_question(FALSE, UnknownId, <<>>, NoCall, NoCall)

\* the user answers the question the last next-question response presented
ApiUserAnswers ==
    \E answer_value \in ApiInputs :
        /\ ApiHasSession
        /\ api_resp.code = 200
        /\ api_resp.nextQuestion # ""
        /\ answer_value # <<>>
        /\ next_question(TRUE, api_resp.nextQuestion, answer_value, NoCall, NoCall)

NextNoLLM ==
    \/ (db_sessions = EmptyDict /\ \E fid \in FORM_INDEX : start_session(fid, TRUE, FALSE))
    \/ UserAnswers
    \/ (redis = EmptyDict /\ \E form \in NonCompoundForms : api_start_session(form, TRUE))
    \/ ApiFirstQuestion
    \/ ApiUserAnswers

\* the user of the session keeps answering
FairnessNoLLM == WF_vars(UserAnswers) /\ WF_vars(ApiFirstQuestion) /\ WF_vars(ApiUserAnswers)

SpecNoLLM == InitNoLLM /\ [][NextNoLLM]_vars /\ FairnessNoLLM

\* ------------------------------------------------------------------------
\* Specification of the crawler
\* ------------------------------------------------------------------------
SessionsIdle ==
    /\ openai_api_key = FALSE
    /\ redis = EmptyDict
    /\ pending_field = ""
    /\ app_resp = AppResp(0, "none", "", "")
    /\ qtask = NoTask
    /\ OPENAI_API_KEY = FALSE
    /\ db_sessions = EmptyDict
    /\ api_resp = NoApiResp

InitCrawler == SessionsIdle /\ PipelineIdle

NextCrawler ==
    \/ \E e \in Executors, ok \in BOOLEAN : crawl_check(e, ok)
    \/ \E e \in Executors, ok \in BOOLEAN : crawl_update(e, ok)
    \/ \E e \in Executors, ok \in BOOLEAN : crawl_upload(e, ok)
    \/ \E e \in Executors, ok \in BOOLEAN : crawl_insert(e, ok)
    \/ \E e \in Executors : crawl_return(e)
    \/ \E e \in Executors, served \in [1..MaxSources -> Hashes] : run_crawl(e, served)

SpecCrawler == InitCrawler /\ [][NextCrawler]_vars

\* the crawler when the outage ends: download_form, upload_to_s3 and the
\* collection may fail until the last cycle starts, and not after it
MayFail(ok) == ok \/ now < MaxTime

NextCrawlerRecovers ==
    \/ \E e \in Executors, ok \in BOOLEAN : MayFail(ok) /\ crawl_check(e, ok)
    \/ \E e \in Executors, ok \in BOOLEAN : MayFail(ok) /\ crawl_update(e, ok)
    \/ \E e \in Executors, ok \in BOOLEAN : MayFail(ok) /\ crawl_upload(e, ok)
    \/ \E e \in Executors, ok \in BOOLEAN : MayFail(ok) /\ crawl_insert(e, ok)
    \/ \E e \in Executors : crawl_return(e)
    \/ \E e \in Executors, served \in [1..MaxSources -> Hashes] : run_crawl(e, served)

\* a step of the loop of main(): while True: run_crawl(); time.sleep(...)
MainLoopStep ==
    \/ \E ok \in BOOLEAN : MayFail(ok) /\ crawl_check("main", ok)
    \/ \E ok \in BOOLEAN : MayFail(ok) /\ crawl_update("main", ok)
    \/ \E ok \in BOOLEAN : MayFail(ok) /\ crawl_upload("main", ok)
    \/ \E ok \in BOOLEAN : MayFail(ok) /\ crawl_insert("main", ok)
    \/ crawl_return("main")
    \/ \E served \in [1..MaxSources -> Hashes] : run_crawl("main", served)

\* the loop of main() never stops: every call it makes returns or raises,
\* and after the sleep the next cycle starts
SpecCrawlerRecovers ==
    InitCrawler /\ [][NextCrawlerRecovers]_vars /\ WF_vars(MainLoopStep)

\* ------------------------------------------------------------------------
\* Specification of the worker
\* ------------------------------------------------------------------------
FailPoints == {"none", "get_object", "put_object", "update_one", "delete_message"}

NextWorker ==
    \/ main
    \/ \E key \in EventKeys : object_created(key)
    \/ bad_message_sent
    \/ \E msg \in queue, conv_ok \in BOOLEAN, ids \in ExtractedFields,
          layout \in LayoutResults, keyword \in KeywordResults,
          raises \in BOOLEAN, matched \in BOOLEAN, fail_at \in FailPoints :
             run_once(msg, conv_ok, ids, layout, keyword, raises, matched, fail_at)

SpecWorker == InitCrawler /\ [][NextWorker]_vars

\* one run of the worker process: main() is entered once, and a process
\* that ended is not started again
MainStarts == worker = "not_started" /\ main

\* an iteration of the loop of main() in which no call raises
RunOnceReturns(msg) ==
    \E conv_ok \in BOOLEAN, ids \in ExtractedFields,
       layout \in LayoutResults, keyword \in KeywordResults,
       raises \in BOOLEAN, matched \in BOOLEAN :
          run_once(msg, conv_ok, ids, layout, keyword, raises, matched, "none")

NextMain ==
    \/ MainStarts
    \/ \E key \in EventKeys : object_created(key)
    \/ bad_message_sent
    \/ \E msg \in queue, conv_ok \in BOOLEAN, ids \in ExtractedFields,
          layout \in LayoutResults, keyword \in KeywordResults,
          raises \in BOOLEAN, matched \in BOOLEAN, fail_at \in FailPoints :
             run_once(msg, conv_ok, ids, layout, keyword, raises, matched, fail_at)

\* the process is started, and the loop of main() goes round as long as
\* the process lives: a message that stays on the queue is received again,
\* and a call does not raise on every delivery
SpecMain ==
    /\ InitCrawler
    /\ [][NextMain]_vars
    /\ WF_vars(MainStarts)
    /\ \A msg \in EventKeys \cup {BadMessage} : WF_vars(RunOnceReturns(msg))

\* the keys under which run_once puts the PDF of a converted document
ConvertedKeys ==
    {<<key[1], key[2], "pdf">> :
        key \in {e \in EventKeys : _detect_file_type(e) \in {"doc_ole", "docx_or_zip"}}}

\* one run of the worker process on a queue that is notified of every
\* object created in the bucket, the PDFs the worker puts there included
NextChain ==
    \/ MainStarts
    \/ \E key \in EventKeys : object_created(key)
    \/ \E key \in ConvertedKeys : converted_object_created(key)
    \/ \E msg \in queue, conv_ok \in BOOLEAN, ids \in ExtractedFields,
          layout \in LayoutResults, keyword \in KeywordResults,
          raises \in BOOLEAN, matched \in BOOLEAN, fail_at \in FailPoints :
             run_once(msg, conv_ok, ids, layout, keyword, raises, matched, fail_at)

\* the process is started, the object store delivers its events, and the
\* loop of main() goes round as long as the process lives
SpecChain ==
    /\ InitCrawler
    /\ [][NextChain]_vars
    /\ WF_vars(MainStarts)
    /\ \A key \in ConvertedKeys : WF_vars(converted_object_created(key))
    /\ \A msg \in EventKeys \cup ConvertedKeys : WF_vars(RunOnceReturns(msg))

\* ------------------------------------------------------------------------
\* Specification of the bbox detection step of ocr_extract_fields
\* ------------------------------------------------------------------------
InitDetect ==
    /\ SessionsIdle
    /\ web = [i \in 1..MaxSources |-> "h1"]
    /\ crawled_forms = {}
    /\ bucket = {}
    /\ now = 0
    /\ crawler = [e \in Executors |-> StartExecutor]
    /\ queue = {}
    /\ unnotified = {}
    /\ worker = "not_started"
    /\ forms = {}
    /\ processed = EmptyDict
    /\ detect \in DetectInputs
    /\ fill_req = NoRequest
    /\ fill_out = NoOutput
    /\ ttl_left = EmptyDict
    /\ sm = SmIdle(SmOut("none", ""))
    /\ idle_for = EmptyDict

NextDetect == detect_skip \/ detect_layout \/ detect_keyword

SpecDetect == InitDetect /\ [][NextDetect]_vars

\* ------------------------------------------------------------------------
\* Specification of overlay_pdf
\* ------------------------------------------------------------------------
OverlayFailPoints == {"none", "draw", "merge"}

InitOverlay ==
    /\ SessionsIdle
    /\ IngestIdle
    /\ fill_req \in OverlayInputs
    /\ fill_out = NoOutput
    /\ ttl_left = EmptyDict
    /\ sm = SmIdle(SmOut("none", ""))
    /\ idle_for = EmptyDict

NextOverlay ==
    \E font_raises \in BOOLEAN, fail_at \in OverlayFailPoints : fill_pdf(font_raises, fail_at)

SpecOverlay == InitOverlay /\ [][NextOverlay]_vars

\* ------------------------------------------------------------------------
\* Specification of SessionManager
\* ------------------------------------------------------------------------
NextSession ==
    \/ \E session_id \in Sids, data \in SessionData : sm_create(session_id, data)
    \/ \E session_id \in Sids : sm_get(session_id)
    \/ sm_get_expire
    \/ \E session_id \in Sids, data \in SessionData : sm_update(session_id, data)
    \/ sm_update_setex
    \/ \E session_id \in Sids : sm_delete(session_id)
    \/ \E session_id \in Sids : sm_delete_concurrent(session_id)
    \/ \E session_id \in Sids : sm_extend_ttl(session_id)
    \/ redis_tick

SpecSession == InitCrawler /\ [][NextSession]_vars

\* ========================================================================
\* Properties
\* ========================================================================
Fields == st.form_id

RequiredNames == {Fields[i].name : i \in {j \in 1..Len(Fields) : RequiredOrTrue(Fields[j])}}

\* C1: in app.py every stored session with stage "confirm" has a non-empty
\* pending and a field_idx that points at the field the pending value was
\* submitted for, also after /answer calls made while stage = "confirm".
C1_ConfirmPointsAtPendingField ==
    (HasSession /\ st.stage = "confirm") =>
        /\ st.pending # EmptyDict
        /\ st.field_idx < Len(Fields)
        /\ Fields[st.field_idx + 1].name = pending_field

C2_Range == HasSession => (st.field_idx >= 0 /\ st.field_idx <= Len(Fields))

C2_NoIncrementAtEnd ==
    (HasSession /\ HasSession' /\ st.field_idx = Len(Fields)) => st'.field_idx = st.field_idx

\* C2: every stored session has 0 <= field_idx <= len(fields), and no request
\* changes field_idx once it equals len(fields).
C2_FieldIdxBounded == [](C2_Range) /\ [][C2_NoIncrementAtEnd]_vars

\* /answer was called on a session already past its last field and answered
\* "done" without touching it
C2_Witness ==
    /\ HasSession
    /\ st.field_idx = Len(Fields)
    /\ app_resp.kind = "done" /\ app_resp.msg = "already"

\* C3: whenever the stage is "review", every required field of the form has
\* an entry in answers; only optional fields can be absent.
C3_ReviewHasRequiredAnswers ==
    (HasSession /\ st.stage = "review") => RequiredNames \subseteq DOMAIN st.answers

\* a review reached with a required field answered and an optional one skipped
C3_Witness ==
    /\ HasSession
    /\ st.stage = "review"
    /\ RequiredNames # {}
    /\ \E i \in 1..Len(Fields) : ~RequiredOrTrue(Fields[i]) /\ Fields[i].name \notin DOMAIN st.answers

ApiForm == session.formId

\* C4: a value graded as needing confirmation is not written to answers by
\* the turn that submitted it; in next-question a turn whose validation has
\* needsConfirmation = true leaves the session's answers as they were.
C4_NeedsConfirmationNotCommitted ==
    [][(ApiHasSession /\ ApiHasSession'
        /\ api_resp'.validation.present /\ api_resp'.validation.needsConfirmation)
       => session'.answers = session.answers]_vars

\* C5: a skip request marks a field as skipped only when the field is
\* optional; next-question never adds the id of a required field to skipped.
C5_RequiredNeverSkipped ==
    ApiHasSession =>
        \A i \in 1..Len(ApiForm) :
            ApiForm[i].id \in Range(session.skipped) => ~ApiForm[i].required

\* C6: a field id in the session's skipped list is never returned as the
\* next question by a later next-question response, whether the question
\* comes from the deterministic generator or from the LLM.
C6_SkippedNeverPresented ==
    ApiHasSession => api_resp.nextQuestion \notin Range(session.skipped)

C7_Advances == UserAnswers => st'.field_idx = st.field_idx + 1

C7_ReviewAtEnd == HasSession => (st.stage = "review" <=> st.field_idx = Len(Fields))

C7_DoneWhenAllSettled ==
    (ApiHasSession /\ api_resp.code = 200) =>
        (api_resp.done <=> FormIds(ApiForm) \subseteq (DOMAIN session.answers) \cup Range(session.skipped))

\* C7: with the LLM unavailable and a form without compound fields, a user
\* who answers every presented question with an accepted non-empty answer
\* finishes: each accepted /answer advances field_idx by one and the stage is
\* "review" exactly when field_idx = len(fields), which is eventually
\* reached; next-question returns done exactly when every field id is in
\* answers or skipped, and eventually does.
C7_NoLLMFinishes ==
    /\ [](HasSession => <>(HasSession /\ st.stage = "review"))
    /\ [](ApiHasSession => <>(api_resp.done))
    /\ []C7_ReviewAtEnd
    /\ []C7_DoneWhenAllSettled
    /\ [][C7_Advances]_vars

\* a review reached on a form of several fields, all of them answered
C7_Witness ==
    /\ HasSession
    /\ ~openai_api_key
    /\ st.stage = "review"
    /\ Len(Fields) > 1
    /\ Cardinality(DOMAIN st.answers) = Len(Fields)

C8_Step ==
    \A fieldId \in FormIds(ApiForm), answer_value \in ApiInputs, gen \in GenReplies(ApiForm) :
        (~is_skip(answer_value)
         /\ next_question(TRUE, fieldId, answer_value, [kind |-> "raise"], gen))
        => /\ api_resp'.code = 200
           /\ fieldId \in DOMAIN session'.answers
           /\ ~(api_resp'.validation.present /\ ~api_resp'.validation.isValid)

\* C8: when the LLM call of a turn raises (answer grading or compound-answer
\* parsing), the turn commits the user's non-empty answer and returns
\* neither an error nor a rejection.
C8_LLMFailureNeverBlocks == [][(ApiHasSession /\ OPENAI_API_KEY) => C8_Step]_vars

C9_Step ==
    \A fieldId \in FormIds(ApiForm), answer_value \in ApiInputs :
        LET field == FieldOf(ApiForm, fieldId)
        IN (field.type = "compound" /\ ~is_skip(answer_value)) =>
           \A llm \in ParseReplies(field, answer_value), gen \in GenReplies(ApiForm) :
              LET parse_result == _parse_compound_answer(field, answer_value, llm)
                  named == MissingPrompts(field, parse_result.missing)
              IN next_question(TRUE, fieldId, answer_value, llm, gen) =>
                 /\ named # <<>> =>
                       /\ session'.answers = session.answers
                       /\ api_resp'.nextQuestion = fieldId
                       /\ api_resp'.validation.present
                       /\ ~api_resp'.validation.isValid
                       /\ api_resp'.validation.names = named
                 /\ session'.answers # session.answers => parse_result.missing = <<>>

\* C9: when the parse of a compound answer reports a declared subfield
\* missing, the answers are unchanged, the same compound field is presented
\* again and the validation is invalid and names the missing subfields; the
\* parsed map is stored only when nothing is missing.
C9_MissingSubfieldAsksAgain == [][ApiHasSession => C9_Step]_vars

\* C10: every value committed for a compound field is a mapping from
\* subfield ids declared by that field to strings, every value committed for
\* a non-compound field is a string.
C10_AnswerShapes ==
    ApiHasSession =>
        \A i \in 1..Len(ApiForm) :
            LET f == ApiForm[i]
                a == session.answers[f.id]
            IN f.id \in DOMAIN session.answers =>
               IF f.type = "compound"
               THEN /\ a.t = "dict"
                    /\ DOMAIN a.d \subseteq Range(SubIds(f))
                    /\ \A k \in DOMAIN a.d : a.d[k].t = "str"
               ELSE a.t = "str"

\* C11: /confirm with yes=false on a session in stage "confirm" clears
\* pending and sets the stage to "ask", leaves field_idx and answers as they
\* were, and the response asks for the field at that field_idx.
C11_ConfirmNoKeepsField ==
    [][(HasSession /\ st.stage = "confirm" /\ confirm(FALSE)) =>
          /\ HasSession'
          /\ st'.pending = EmptyDict
          /\ st'.stage = "ask"
          /\ st'.field_idx = st.field_idx
          /\ st'.answers = st.answers
          /\ app_resp'.code = 200 /\ app_resp'.kind = "ask"
          /\ app_resp'.field = Fields[st.field_idx + 1].name]_vars

\* the first field is asked again after its held value was declined
C11_Witness ==
    /\ HasSession
    /\ st.stage = "ask" /\ st.pending = EmptyDict
    /\ st.field_idx = 0 /\ st.answers = EmptyDict
    /\ app_resp.code = 200 /\ app_resp.kind = "ask"
    /\ app_resp.field = Fields[1].name

C12_Outcome ==
    /\ app_resp'.code = 200
    /\ app_resp'.kind = "rejected"
    /\ app_resp'.msg # ""
    /\ redis' = redis

\* C12: when a validator or the field pattern rejects the normalized input
\* of /answer, the response is the turn outcome {ok: false, message} with
\* status 200 and the stored session is unchanged: a step that ends in
\* anything else is not an /answer call with a rejected input.
C12_RejectionLeavesSession ==
    [][(HasSession /\ st.field_idx < Len(Fields) /\ ~C12_Outcome) =>
          \A answer \in AnswerInputs :
              (/\ ~SkipAllowed(Fields[st.field_idx + 1], Strip(answer))
               /\ ~ValidateField(Fields[st.field_idx + 1], Strip(answer)).ok)
              => \A grader \in GraderOutcomes : ~answer_field(answer, grader)]_vars

\* a rejection returned in the middle of a form, after an accepted answer
C12_Witness ==
    /\ HasSession
    /\ app_resp.code = 200 /\ app_resp.kind = "rejected"
    /\ st.stage = "ask"
    /\ st.field_idx = 1 /\ st.answers # EmptyDict

\* the documents of the collection for the pair the call of e is about
DocsOf(e) == is_form_already_crawled(FORM_SOURCES[crawler[e].i].url, crawler[e].content_hash)

\* the call of e has returned and fetched the bytes it fetched in the
\* previous cycle of e
SameHashAgain(e) ==
    /\ crawler[e].pc = "return"
    /\ crawler[e].content_hash # ""
    /\ crawler[e].prev_hash[crawler[e].i] = crawler[e].content_hash

C13_SecondCycleOutcome(e) ==
    /\ ~crawler[e].uploaded
    /\ crawler[e].insert_result = "none"
    /\ Cardinality(DocsOf(e)) = 1
    /\ \A d \in DocsOf(e) : d.last_checked = now /\ d.crawled_at < d.last_checked

BothInserted(e1, e2) ==
    /\ e1 # e2
    /\ crawler[e1].pc = "return" /\ crawler[e2].pc = "return"
    /\ crawler[e1].i = crawler[e2].i
    /\ crawler[e1].content_hash = crawler[e2].content_hash
    /\ crawler[e1].existing = {} /\ crawler[e2].existing = {}
    /\ crawler[e1].insert_result \in {"ok", "duplicate"}
    /\ crawler[e2].insert_result \in {"ok", "duplicate"}

\* C14: when two executions of crawl_form_source for the same (url,
\* content_hash) both pass the already-crawled check and insert, exactly one
\* document for the pair results; the losing insert is rejected by the unique
\* index and caught inside the call, which returns False to the cycle.
C14_RaceLeavesOneRecord ==
    \A e1, e2 \in Executors :
        BothInserted(e1, e2) =>
            /\ Cardinality(DocsOf(e1)) = 1
            /\ \E w \in {e1, e2} :
                  /\ crawler[w].insert_result = "ok"
                  /\ \A l \in {e1, e2} \ {w} :
                        /\ crawler[l].insert_result = "duplicate"
                        /\ crawler[l].raised
                        /\ ~crawler[l].is_new

\* the loop and the DAG task raced on the same document and one insert lost
C14_Witness ==
    /\ BothInserted("main", "dag")
    /\ crawler["main"].insert_result = "duplicate"
    /\ crawler["dag"].insert_result = "ok"

\* C15: after crawl_form_source returns for a source, either the blob was
\* uploaded and its crawled_forms document inserted, or neither happened: a
\* blob uploaded by the call has a document that names its key.
C15_UploadAndInsertTogether ==
    \A e \in Executors :
        crawler[e].pc = "return" =>
            /\ crawler[e].uploaded <=> crawler[e].insert_result = "ok"
            /\ crawler[e].uploaded =>
                  /\ crawler[e].s3_key \in bucket
                  /\ \E d \in crawled_forms : d.s3_key = crawler[e].s3_key

C16_Sum(e) ==
    crawler'[e].pc = "done" =>
        crawler'[e].stats.new + crawler'[e].stats.skipped + crawler'[e].stats.failed
            = Len(FORM_SOURCES)

C16_Counted(e) ==
    LET c == crawler[e]
        count == crawler'[e].stats
    IN /\ c.raised =>
             count = [c.stats EXCEPT !.failed = @ + 1]
       /\ (~c.raised /\ c.existing # {}) =>
             count = [c.stats EXCEPT !.skipped = @ + 1]
       /\ c.insert_result = "ok" =>
             count = [c.stats EXCEPT !.new = @ + 1]

\* C16: a cycle over N sources ends with new + skipped + failed = N, where a
\* source whose download, upload or insert failed is counted in failed, one
\* with an already recorded hash in skipped and a newly stored one in new.
C16_CountsPartitionSources ==
    [][\A e \in Executors : crawl_return(e) => (C16_Sum(e) /\ C16_Counted(e))]_vars

\* the documents of the forms collection that came from the event of key
DocsOfEvent(key) == {d \in forms : d.id = key \/ d.original_key = key}

\* C17: once the event of an object has been processed, however many times,
\* the forms collection holds exactly one record for it, with the id and the
\* field ids of its first processing.
C17_ReprocessingIsIdempotent ==
    \A key \in DOMAIN processed :
        /\ Cardinality(DocsOfEvent(key)) = 1
        /\ \A d \in DocsOfEvent(key) :
              /\ d.id = processed[key].id
              /\ [i \in 1..Len(d.fields) |-> d.fields[i].id] = processed[key].ids

\* C18: every record of the forms collection has id equal to source, and that
\* key names a PDF object that is in the bucket.
C18_IdIsSourceKeyOfPdf ==
    \A d \in forms : d.id = d.source /\ d.id[3] = "pdf" /\ d.id \in bucket

\* C19: a run_once whose DOC/DOCX-to-PDF conversion fails upserts nothing and
\* leaves the message in the queue.
C19_FailedConversionKeepsMessage ==
    [][\A msg \in queue \ {BadMessage}, ids \in ExtractedFields,
          layout \in LayoutResults, keyword \in KeywordResults,
          raises \in BOOLEAN, matched \in BOOLEAN, fail_at \in FailPoints :
            (/\ _detect_file_type(msg) \in {"doc_ole", "docx_or_zip"}
             /\ run_once(msg, FALSE, ids, layout, keyword, raises, matched, fail_at))
            => forms' = forms /\ msg \in queue']_vars

\* C20: a stored schema in which some field has a bbox carries image_width and
\* image_height in its bbox_detection.
C20_BboxHasImageSize ==
    \A d \in forms :
        (\E i \in 1..Len(d.fields) : d.fields[i].bbox) => d.bbox_detection.image_size

\* the documents a run_once on msg writes: under the input key or the key of the converted PDF
WrittenBy(msg) == {d \in forms : d.id = msg \/ d.original_key = msg}

\* C21: a run_once in which a detector raised (the layout detector, or the
\* keyword detector when it runs) still upserts the schema, and the schema
\* has an empty field_positions, an error string and no field with a bbox.
C21_DetectorFailureRecorded ==
    [][\A msg \in queue \ {BadMessage}, conv_ok \in BOOLEAN, ids \in ExtractedFields,
          layout \in LayoutResults, keyword \in KeywordResults, matched \in BOOLEAN :
            (/\ _detect_file_type(msg) = "pdf" \/ conv_ok
             /\ layout = DetectorRaised \/ (layout.n < 3 /\ keyword = DetectorRaised)
             /\ run_once(msg, conv_ok, ids, layout, keyword, FALSE, matched, "none"))
            => \E d \in WrittenBy(msg)' :
                  /\ d.bbox_detection.n = 0
                  /\ d.bbox_detection.error
                  /\ \A i \in 1..Len(d.fields) : ~d.fields[i].bbox]_vars

\* C22: in every stored schema the field ids are pairwise distinct.
C22_FieldIdsDistinct ==
    \A d \in forms :
        \A i, j \in 1..Len(d.fields) : i # j => d.fields[i].id # d.fields[j].id

\* an overlay_pdf call has returned
Filled == fill_out.kind = "done"

\* the call ran to its end: the PDF was readable and no step raised
FilledNormally == Filled /\ fill_req.pdf.readable /\ fill_out.fail_at = "none"

\* the pages of the output that were appended, and those of the original
SummaryOf(bytes) == SelectSeq(bytes.pages, LAMBDA pg : pg.src = "summary")

OriginalOf(bytes) == SelectSeq(bytes.pages, LAMBDA pg : pg.src = "base")

\* the answered field ids with a non-empty value
NonEmptyAnswers == {k \in DOMAIN fill_req.answers : ~EmptyValue(fill_req.answers[k])}

\* the strings drawn on a sequence of pages
DrawnOn(pages) == UNION {Range(pages[i].drawn) : i \in 1..Len(pages)}

\* C23: overlay_pdf with empty answers returns exactly the bytes it was given.
C23_EmptyAnswersByteEqual ==
    (Filled /\ DOMAIN fill_req.answers = {}) => fill_out.bytes = fill_req.pdf

\* C24: summary pages are appended only when no answered field has a bbox;
\* when some answered field has a bbox, every answered non-empty field with a
\* bbox is drawn at its position on its own page and no summary page is appended.
C24_SummaryOnlyWithoutAnyBbox ==
    (FilledNormally /\ DOMAIN fill_req.answers # {}) =>
        LET withBbox == DOMAIN fill_req.answers \cap FieldPositions(fill_req.schema)
        IN /\ SummaryOf(fill_out.bytes) # <<>> => withBbox = {}
           /\ withBbox # {} =>
                 /\ SummaryOf(fill_out.bytes) = <<>>
                 /\ \A k \in withBbox \cap NonEmptyAnswers :
                       LET field == SchemaField(fill_req.schema, k)
                           pos == BboxPosition(fill_req.pdf, fill_req.schema, field.bbox)
                       IN \E dr \in Range(fill_out.bytes.pages[field.page].drawn) :
                             /\ dr.field_id = k
                             /\ dr.x10 = pos.x10 /\ dr.y10 = pos.y10
                             /\ dr.text = PyStr(fill_req.answers[k])

OverlayRaised ==
    \/ ~fill_req.pdf.readable
    \/ /\ fill_out.fail_at # "none"
       /\ DOMAIN fill_req.answers # {}
       /\ \/ ~HasValidPositions(fill_req.schema, fill_req.answers) /\ fill_out.fail_at = "draw"
          \/ HasValidPositions(fill_req.schema, fill_req.answers) /\ NonEmptyAnswers # {}

\* the output holds every string the call had to draw
OverlayComplete ==
    /\ OriginalOf(fill_out.bytes) # <<>>
    /\ Len(OriginalOf(fill_out.bytes)) = Len(fill_req.pdf.pages)
    /\ DOMAIN fill_req.answers # {} =>
          {[field_id |-> dr.field_id, text |-> dr.text] : dr \in DrawnOn(fill_out.bytes.pages)}
             = {[field_id |-> k, text |-> PyStr(fill_req.answers[k])] : k \in NonEmptyAnswers}

\* C26 as stated: whenever any step raises, the font registration included,
\* overlay_pdf returns the original bytes.
C26_AnyErrorReturnsOriginal ==
    (Filled /\ (OverlayRaised \/ fill_out.font_raises)) => fill_out.bytes = fill_req.pdf

\* C26: when reading the PDF, drawing or merging raises, overlay_pdf returns
\* the original bytes; otherwise, also when the font registration raised, the
\* output holds every string: it is never partially overlaid.
C26_ErrorReturnsOriginalNeverPartial ==
    Filled => /\ OverlayRaised => fill_out.bytes = fill_req.pdf
              /\ ~OverlayRaised => OverlayComplete

\* C26 witness: the merge raised after strings had been drawn for two fields
C26_Witness ==
    /\ Filled
    /\ fill_req.pdf.readable
    /\ fill_out.fail_at = "merge"
    /\ HasValidPositions(fill_req.schema, fill_req.answers)
    /\ Cardinality(NonEmptyAnswers) = 2
    /\ fill_out.bytes = fill_req.pdf

\* the subfield values of a compound answer in declaration order, joined by ", "
RECURSIVE JoinValues(_, _)
JoinValues(subfields, d) ==
    IF subfields = <<>> THEN <<>>
    ELSE d[Head(subfields).id].s
            \o (IF Tail(subfields) = <<>> THEN <<>> ELSE <<",", " ">>)
            \o JoinValues(Tail(subfields), d)

\* C27: a compound answer is drawn as its subfield values in declaration
\* order joined by ", ".
C27_CompoundFlattened ==
    FilledNormally =>
        \A k \in NonEmptyAnswers :
            fill_req.answers[k].t = "dict" =>
                \E dr \in DrawnOn(fill_out.bytes.pages) :
                    dr.field_id = k /\ dr.text = JStr(JoinValues(SchemaField(fill_req.schema, k).subfields,
                                              fill_req.answers[k].d))

\* the strings drawn over the original pages in a call where every answered field has a bbox
BboxDrawn ==
    IF FilledNormally /\ DOMAIN fill_req.answers # {}
       /\ HasValidPositions(fill_req.schema, fill_req.answers)
    THEN {[field |-> SchemaField(fill_req.schema, dr.field_id), dr |-> dr] :
             dr \in DrawnOn(fill_out.bytes.pages)}
    ELSE {}

\* the scaling example: bbox 230, 700, 20 on a 2480 x 3508 image, page 595 x 842
Example(e) ==
    /\ e.field.bbox = Bbox(230, 700, 20)
    /\ fill_req.schema.image_width = 2480 /\ fill_req.schema.image_height = 3508
    /\ fill_req.pdf.page_width = 595 /\ fill_req.pdf.page_height = 842
    /\ e.dr.text = PyStr(fill_req.answers[e.field.id])

\* within half a tenth: |10 * num - v10 * den| * 2 <= den
Approx(v10, num, den) ==
    /\ 2 * (10 * num - v10 * den) <= den
    /\ 2 * (v10 * den - 10 * num) <= den

\* the string of field e.field is drawn at x * scale_x and
\* page_height - y * scale_y - 0.7 * height * scale_y, to a tenth of a point
AtFormula(e) ==
    LET sc == fill_req.schema
        pdf == fill_req.pdf
        b == e.field.bbox
    IN e.dr.text = PyStr(fill_req.answers[e.field.id]) /\ sc.image_width # 0 /\ sc.image_height # 0
       => /\ Approx(e.dr.x10, b.x * pdf.page_width, sc.image_width)
          /\ Approx(e.dr.y10,
                    10 * pdf.page_height * sc.image_height - (10 * b.y + 7 * b.height) * pdf.page_height,
                    10 * sc.image_height)

\* C28 as stated: the formula, and the example drawn at about (55.2, 672.7).
C28_PositionAndExample ==
    \A e \in BboxDrawn :
        /\ AtFormula(e)
        /\ Example(e) => e.dr.x10 = 552 /\ e.dr.y10 = 6727

\* C28: the formula, and the example drawn at about (55.2, 670.6).
C28_PositionFormula ==
    \A e \in BboxDrawn :
        /\ AtFormula(e)
        /\ Example(e) => e.dr.x10 = 552 /\ e.dr.y10 = 6706

\* C28 witness: the example was drawn
C28_Witness == \E e \in BboxDrawn : Example(e)

\* C29: a session that was created and not deleted is unreadable only after
\* SessionTtl seconds without a read or a write.
C29_ExpiresOnlyAfterIdleTtl ==
    \A k \in DOMAIN idle_for : k \notin DOMAIN redis => idle_for[k] >= SessionTtl

\* C30: update of a session id that does not exist raises 404 and stores
\* nothing, and a get of that id right afterwards returns None.
C30_UpdateMissingRaises404 ==
    [][/\ \A session_id \in Sids, data \in SessionData :
             (session_id \notin DOMAIN redis /\ sm_update(session_id, data))
             => sm'.pc = "idle" /\ sm'.out.kind = "404" /\ redis' = redis
       /\ \A session_id \in Sids :
             (sm.out.kind = "404" /\ session_id \notin DOMAIN redis /\ sm_get(session_id))
             => sm'.out.kind = "None" /\ redis' = redis]_vars

\* C30 witness: update raised 404 for a session that had existed and expired
C30_Witness ==
    /\ sm.pc = "idle"
    /\ sm.out.kind = "404"
    /\ \E k \in DOMAIN idle_for : k \notin DOMAIN redis

\* ------------------------------------------------------------------------
\* Unknown form, unknown session
\* ------------------------------------------------------------------------
\* a request that names a form no query matches, or a session Redis has not
UnknownFormRequest == \E fid \in FORM_INDEX : start_session(fid, FALSE, FALSE)

UnknownSessionRequest ==
    /\ ~HasSession
    /\ \/ \E answer \in AnswerInputs, grader \in GraderOutcomes : answer_field(answer, grader)
       \/ \E yes \in BOOLEAN : confirm(yes)
       \/ question_next
       \/ \E llm_ok \in BOOLEAN : preview(llm_ok)

\* C31: a request naming an unknown form or an unknown or expired session is
\* answered with HTTP 404 and creates or modifies no session
C31_UnknownIs404 ==
    [][(UnknownFormRequest \/ UnknownSessionRequest)
          => (app_resp'.code = 404 /\ redis' = redis)]_vars

\* C31, the part the code keeps: an unknown session id is answered with 404
\* by /answer, /confirm, /question/next and /preview, and nothing is stored
C31_UnknownSessionIs404 ==
    [][UnknownSessionRequest => (app_resp'.code = 404 /\ redis' = redis)]_vars

\* /session/start found no form: 400, no session
C31_Witness == app_resp = AppResp(400, "error", "", "") /\ ~HasSession

\* ------------------------------------------------------------------------
\* /confirm with nothing pending
\* ------------------------------------------------------------------------
\* C32: /confirm on a session whose stage is not "confirm" is rejected with
\* HTTP 400 and leaves field_idx, answers, stage and pending unchanged
C32_ConfirmWithoutPendingIs400 ==
    [][(HasSession /\ st.stage # "confirm" /\ \E yes \in BOOLEAN : confirm(yes))
          => /\ app_resp'.code = 400
             /\ HasSession'
             /\ st'.field_idx = st.field_idx
             /\ st'.answers = st.answers
             /\ st'.stage = st.stage
             /\ st'.pending = st.pending]_vars

\* /confirm refused on a session that holds an answer and waits for the next
C32_Witness ==
    /\ HasSession
    /\ app_resp = AppResp(400, "error", "", "")
    /\ st.stage = "ask" /\ st.pending = EmptyDict
    /\ st.field_idx = 1 /\ st.answers # EmptyDict

\* ------------------------------------------------------------------------
\* /preview and the required fields
\* ------------------------------------------------------------------------
\* the labels of the fields /answer does not let the user skip and answers
\* has no entry for
UnskippableWithoutAnswer(fields, answers) ==
    LabelsWhere(fields, {fields[i].name : i \in {j \in 1..Len(fields) :
                    RequiredOrTrue(fields[j]) /\ fields[j].name \notin DOMAIN answers}})

PreviewRequest == HasSession /\ \E llm_ok \in BOOLEAN : preview(llm_ok)

\* C33: /preview returns ok = false with the labels of the missing fields
\* exactly when a field that is required under the rule of /answer has no
\* entry in answers; a session at stage "review" is never reported as
\* missing required fields
C33_MissingExactlyRequired ==
    [][PreviewRequest =>
          LET need == UnskippableWithoutAnswer(st.form_id, st.answers)
          IN /\ (app_resp'.kind = "missing") <=> (need # <<>>)
             /\ need # <<>> => app_resp'.msg = JoinLabels(need)
             /\ st.stage = "review" => app_resp'.kind # "missing"]_vars

\* C33 with the rule /preview applies, f.get("required"): the report is
\* exact for that rule, and never made at stage "review"
C33_MissingExactlyFlagged ==
    [][PreviewRequest =>
          LET need == MissingRequired(st.form_id, st.answers)
          IN /\ (app_resp'.kind = "missing") <=> (need # <<>>)
             /\ need # <<>> => app_resp'.msg = JoinLabels(need)
             /\ st.stage = "review" => app_resp'.kind # "missing"]_vars

\* /preview reported two missing fields
C33_Witness == HasSession /\ app_resp = AppResp(200, "missing", "", "f1, f2")

\* ------------------------------------------------------------------------
\* run_once: the message is deleted last
\* ------------------------------------------------------------------------
\* the upsert of the event of msg succeeded in this step
UpsertedNow(msg) ==
    /\ msg \in DOMAIN processed'
    /\ processed'[msg].n = Deliveries(msg) + 1
    /\ \E d \in forms' : d.id \in {msg, <<msg[1], msg[2], "pdf">>}

\* C34: the message of an event that names a bucket and a key leaves the
\* queue only in a run_once whose upsert succeeded; a run_once in which the
\* PDF upload or the upsert raised leaves it in the queue; only a message
\* without bucket or key is deleted without an upsert
C34_DeletedOnlyAfterUpsert ==
    [][\A msg \in queue :
          /\ (msg # BadMessage /\ msg \notin queue') => UpsertedNow(msg)
          /\ (msg = BadMessage /\ msg \notin queue') => UNCHANGED <<forms, processed>>]_vars

\* a converted document whose upload succeeded and whose upsert raised: the
\* PDF is in the bucket, no form is stored, the message is still queued
C34_Witness ==
    \E msg \in queue :
        /\ msg # BadMessage
        /\ <<msg[1], msg[2], "pdf">> \in bucket
        /\ msg \notin DOMAIN processed
        /\ forms = {}

\* ------------------------------------------------------------------------
\* The two detection strategies
\* ------------------------------------------------------------------------
KeywordDetectorRan == \E i \in 1..Len(detect.calls) : detect.calls[i] = "keyword"

\* C35: the keyword detector (strategy B) runs exactly when the layout
\* detector (strategy A) returned fewer than 3 positions; with 3 or more it
\* never runs and the layout positions are what bbox_detection records
C35_FallbackExactlyBelowThree ==
    (detect.pc = "done" /\ detect.is_pdf /\ detect.raises # "layout") =>
        /\ KeywordDetectorRan <=> detect.layout.n < 3
        /\ detect.layout.n >= 3 => detect.bbox_detection_result = detect.layout
        /\ detect.bbox_detection_result =
              DetectBbox(detect.layout, detect.keyword,
                         detect.raises = "keyword" /\ KeywordDetectorRan)

\* the layout detector found one position, the keyword detector ran and its
\* two positions were taken
C35_Witness ==
    /\ detect.pc = "done" /\ detect.is_pdf
    /\ detect.layout.n = 1
    /\ detect.calls = <<"layout", "keyword">>
    /\ detect.bbox_detection_result = detect.keyword
    /\ detect.keyword.n = 2

\* ------------------------------------------------------------------------
\* The crawler retries a document whose record was not written
\* ------------------------------------------------------------------------
\* the collection has a record for what source i serves now
Recorded(i) ==
    \E d \in crawled_forms :
        d.url = FORM_SOURCES[i].url /\ d.content_hash = web[i]

\* executor e is in a call that follows a call of e for the same bytes which
\* left no record, and has passed the lookup
RetryingSameContent(e) ==
    /\ crawler[e].prev_hash[crawler[e].i] = crawler[e].content_hash
    /\ ~crawler[e].prev_stored[crawler[e].i]
    /\ crawler[e].pc \in {"upload", "insert", "update", "return"}
    /\ ~crawler[e].raised

\* in such a call: a lookup that found nothing leads to a new upload under
\* the key of this cycle, and an accepted insert to a record naming that key
C36_RetryUploadsAndInserts ==
    \A e \in Executors :
        RetryingSameContent(e) =>
            /\ (crawler[e].existing = {} /\ crawler[e].pc \in {"insert", "return"}) =>
                  /\ crawler[e].uploaded
                  /\ crawler[e].s3_key \in bucket
                  /\ crawler[e].s3_key[2] = now
            /\ crawler[e].insert_result = "ok" =>
                  \E d \in crawled_forms :
                      /\ d.s3_key = crawler[e].s3_key
                      /\ d.url = FORM_SOURCES[crawler[e].i].url
                      /\ d.content_hash = crawler[e].content_hash

\* C36: when the upload succeeded and the insert failed, the next cycle with
\* the same content finds no record, uploads again and inserts; once the
\* stores accept the calls, a crawled_forms record for the content of every
\* source eventually exists, and stays
C36_RecordEventuallyExists ==
    /\ [](C36_RetryUploadsAndInserts)
    /\ <>[](\A i \in 1..MaxSources : Recorded(i))

\* the loop uploaded in one cycle and its insert raised; in the next cycle,
\* for the same bytes, it uploaded under a new key and inserted the record:
\* the bucket holds both blobs, the collection one record
C36_Witness ==
    LET c == crawler["main"]
    IN /\ c.pc = "return" /\ c.insert_result = "ok"
       /\ c.prev_hash[c.i] = c.content_hash /\ ~c.prev_stored[c.i]
       /\ <<FORM_SOURCES[c.i].name, now - 1, FORM_SOURCES[c.i].format>> \in bucket
       /\ c.s3_key \in bucket /\ c.s3_key[2] = now
       /\ Cardinality(crawled_forms) = 1

\* ------------------------------------------------------------------------
\* A session that is gone stays gone
\* ------------------------------------------------------------------------
\* C38: once delete completed or the TTL expired, the session stays
\* unreadable: a key that is absent comes back only by a create, never by
\* the write of an update whose exists check ran while the key was there
C38_GoneStaysGone ==
    [][\A k \in Sids :
          (k \notin DOMAIN redis /\ k \in DOMAIN redis')
          => \E data \in SessionData : sm_create(k, data)]_vars

\* ------------------------------------------------------------------------
\* The background task and the requests of its session
\* ------------------------------------------------------------------------
\* C37: generate_questions_async changes only the questions of the session:
\* whatever /answer and /confirm did between its read and its write, the
\* field_idx, answers, stage and pending after its write are those they wrote
C37_TaskChangesOnlyQuestions ==
    [][(generate_questions_update /\ HasSession) =>
          /\ HasSession'
          /\ st'.field_idx = st.field_idx
          /\ st'.answers = st.answers
          /\ st'.stage = st.stage
          /\ st'.pending = st.pending]_vars

\* C37 for the task alone: its write stores the session it read with the
\* questions replaced and nothing else changed
C37_WritesWhatItRead ==
    [][(generate_questions_update /\ HasSession) =>
          /\ st'.field_idx = qtask.st.field_idx
          /\ st'.answers = qtask.st.answers
          /\ st'.stage = qtask.st.stage
          /\ st'.pending = qtask.st.pending
          /\ st'.questions = AiQuestions(st.form_id)]_vars

\* C39: a failure while processing one message does not stop the worker:
\* the process never ends, and every valid event on the queue is eventually
\* processed and gets its forms record
C39_WorkerSurvivesFailure ==
    /\ [](worker # "exited")
    /\ \A key \in EventKeys :
          (key \in queue) ~> (key \in DOMAIN processed
                                /\ \E d \in forms : d.id = processed[key].id)

\* ------------------------------------------------------------------------
\* The chain of worker runs behind one crawled document
\* ------------------------------------------------------------------------
\* the event of the converted PDF pdf is processed in this step
ConvertedPdfRun(pdf) ==
    /\ pdf \in queue
    /\ pdf \in DOMAIN processed'
    /\ processed'[pdf].n = Deliveries(pdf) + 1

\* the run on the event of a converted PDF takes it as a PDF: it puts no
\* object, raises no further event, and upserts the form id of the run
\* that produced the PDF, so no second forms record appears for it
C40_PdfRunEndsChain ==
    [][\A pdf \in ConvertedKeys :
          ConvertedPdfRun(pdf) =>
             /\ UNCHANGED <<bucket, unnotified>>
             /\ processed'[pdf].id = pdf
             /\ \E d \in forms' : d.id = pdf
             /\ \A doc \in DOMAIN processed :
                   (<<doc[1], doc[2], "pdf">> = pdf /\ processed[doc].id = pdf)
                      => Cardinality(forms') = Cardinality(forms)]_vars

\* with no new crawled documents the queue becomes and stays empty
C40_QueueDrains == <>[](queue = {} /\ unnotified = {})

\* C40: ingesting one crawled document triggers only a finite chain of
\* worker runs: the event of the converted PDF is processed as a PDF, puts
\* no further object and upserts the same form id as the run that produced
\* it, and the event queue eventually becomes and stays empty
C40_FiniteChain == C40_PdfRunEndsChain /\ C40_QueueDrains

====
